---- MODULE Spec2Model ----
(***************************************************************************)
(* KBD check-in system: the deterministic task resolver                    *)
(* (KBDService.getTodayTask over utils/seeded-random and the daily-task    *)
(* cache) and the time-slot scheduler (TimeScheduler).                     *)
(*                                                                         *)
(* Numbers that JavaScript keeps in 32 bits or more are kept here as       *)
(* little-endian sequences of 16-bit limbs, because the model checker's    *)
(* own integers are signed 32-bit: <<lo, hi>> is lo + 65536 * hi.          *)
(***************************************************************************)
EXTENDS Integers, Sequences, FiniteSets, TLC

(***************************************************************************)
(* 32-bit arithmetic of the JavaScript operators used by seeded-random     *)
(***************************************************************************)
Limb == 256 * 256

RECURSIVE Xor16(_, _, _)
\* bitwise exclusive-or of the low n bits of x and y
Xor16(x, y, n) ==
    IF n = 0 THEN 0
    ELSE ((x + y) % 2) + 2 * Xor16(x \div 2, y \div 2, n - 1)

RECURSIVE Or16(_, _, _)
\* bitwise or of the low n bits of x and y
Or16(x, y, n) ==
    IF n = 0 THEN 0
    ELSE (IF (x % 2) + (y % 2) > 0 THEN 1 ELSE 0)
         + 2 * Or16(x \div 2, y \div 2, n - 1)

\* a ^ b on 32-bit patterns
Xor32(a, b) == << Xor16(a[1], b[1], 16), Xor16(a[2], b[2], 16) >>

\* a | k for a small non-negative constant k (k < 65536)
OrSmall32(a, k) == << Or16(a[1], k, 16), a[2] >>

\* (a + b) mod 2^32 : what ToInt32 / ToUint32 keep of a JavaScript sum
Add32(a, b) ==
    LET lo == a[1] + b[1]
        hi == a[2] + b[2] + (lo \div Limb)
    IN  << lo % Limb, hi % Limb >>

\* a << 5 on a 32-bit pattern
Shl5(a) ==
    LET lo == a[1] * 32
        hi == a[2] * 32 + (lo \div Limb)
    IN  << lo % Limb, hi % Limb >>

\* a >>> k for 0 < k < 16 on a 32-bit pattern
Pow2(k) == CASE k = 7 -> 128 [] k = 14 -> 16384 [] k = 15 -> 32768
Shr32(a, k) ==
    LET p == Pow2(k)
        q == Limb \div p
    IN  << (a[1] \div p) + (a[2] % p) * q, a[2] \div p >>

\* the full 32-bit product of two 16-bit numbers, as <<lo, hi>>
Mul16(x, y) ==
    LET p1 == (x % 256) * y
        p2 == (x \div 256) * y
        s  == p1 + (p2 % 256) * 256
    IN  << s % Limb, ((p2 \div 256) + (s \div Limb)) % Limb >>

\* Math.imul(a, b): the low 32 bits of the product
Imul(a, b) ==
    LET ll == Mul16(a[1], b[1])
        lh == Mul16(a[1], b[2])
        hl == Mul16(a[2], b[1])
    IN  << ll[1], (ll[2] + lh[1] + hl[1]) % Limb >>

U32(n) == << n % Limb, n \div Limb >>

(***************************************************************************)
(* JavaScript numbers: an integer-valued number x is <<lo, hi>> with       *)
(* x = lo + 65536 * hi, 0 <= lo < 65536 and hi any integer (negative for   *)
(* negative x).  Sums of numbers are exact; the bitwise operators and      *)
(* Math.imul read their operands through ToInt32 / ToUint32 and give an    *)
(* int32 (>>> gives a uint32).                                             *)
(***************************************************************************)
\* ToUint32(x): the 32-bit pattern of x, a number in [0, 2^32)
ToUint32(x) == << x[1], x[2] % Limb >>

\* ToInt32(x): the number in [-2^31, 2^31) with the same 32-bit pattern
ToInt32(x) ==
    LET hi == x[2] % Limb
    IN  << x[1], IF hi >= Limb \div 2 THEN hi - Limb ELSE hi >>

\* a + b on numbers
Plus(a, b) ==
    LET lo == a[1] + b[1]
    IN  << lo % Limb, a[2] + b[2] + (lo \div Limb) >>

\* a ^ b
BitXor(a, b) == ToInt32(Xor32(ToUint32(a), ToUint32(b)))

\* a | k for a small constant k
BitOr(a, k) == ToInt32(OrSmall32(ToUint32(a), k))

\* a << 5
ShiftLeft5(a) == ToInt32(Shl5(ToUint32(a)))

\* a >>> k for 0 < k < 16
ShiftRightU(a, k) == Shr32(ToUint32(a), k)

\* Math.imul(a, b)
MathImul(a, b) == ToInt32(Imul(ToUint32(a), ToUint32(b)))

(***************************************************************************)
(* Strings are sequences of one-character strings; charCodeAt is a table   *)
(***************************************************************************)
CharCode ==
    [ c \in {"0","1","2","3","4","5","6","7","8","9","-","_",
             "c","d","e","h","i","l","n","o","p","r","s","u"} |->
      CASE c = "0" -> 48 [] c = "1" -> 49 [] c = "2" -> 50 [] c = "3" -> 51
        [] c = "4" -> 52 [] c = "5" -> 53 [] c = "6" -> 54 [] c = "7" -> 55
        [] c = "8" -> 56 [] c = "9" -> 57 [] c = "-" -> 45 [] c = "_" -> 95
        [] c = "c" -> 99 [] c = "d" -> 100 [] c = "e" -> 101 [] c = "h" -> 104
        [] c = "i" -> 105 [] c = "l" -> 108 [] c = "n" -> 110 [] c = "o" -> 111
        [] c = "p" -> 112 [] c = "r" -> 114 [] c = "s" -> 115 [] c = "u" -> 117 ]

Digit(d) == CASE d = 0 -> "0" [] d = 1 -> "1" [] d = 2 -> "2" [] d = 3 -> "3"
              [] d = 4 -> "4" [] d = 5 -> "5" [] d = 6 -> "6" [] d = 7 -> "7"
              [] d = 8 -> "8" [] d = 9 -> "9"

RECURSIVE NumberString(_)
\* `${n}` for a non-negative integer n
NumberString(n) ==
    IF n < 10 THEN << Digit(n) >>
    ELSE NumberString(n \div 10) \o << Digit(n % 10) >>

SlotChars(slot) ==
    CASE slot = "lunch_open"   -> <<"l","u","n","c","h","_","o","p","e","n">>
      [] slot = "lunch_close"  -> <<"l","u","n","c","h","_","c","l","o","s","e">>
      [] slot = "dinner_open"  -> <<"d","i","n","n","e","r","_","o","p","e","n">>
      [] slot = "dinner_close" -> <<"d","i","n","n","e","r","_","c","l","o","s","e">>

\* `${date}_${brandId}_${slotType}` : the seed input and the cache key
KeyString(date, brandId, slotType) ==
    date \o <<"_">> \o NumberString(brandId) \o <<"_">> \o SlotChars(slotType)

(***************************************************************************)
(* utils/seeded-random                                                     *)
(***************************************************************************)
RECURSIVE Djb2(_, _)
\* the hash of generateSeed's loop after the first n characters, an int32
\* from the first round on:
\*   hash = ((hash << 5) + hash) + input.charCodeAt(i); hash & 0xFFFFFFFF
Djb2(input, n) ==
    IF n = 0 THEN U32(5381)
    ELSE LET hash == Djb2(input, n - 1)
         IN  IF hash[1] < 0 THEN hash  \* never: evaluates hash first
             ELSE ToInt32(Plus(Plus(ShiftLeft5(hash), hash),
                               U32(CharCode[input[n]])))

\* the loop's last hash returned as it is, without the closing hash >>> 0
seedOfSigned(input) == Djb2(input, Len(input))

\* generateSeed of the characters of an input string: hash >>> 0
seedOf(input) == ToUint32(Djb2(input, Len(input)))

generateSeed(date, brandId, slotType) ==
    seedOf(KeyString(date, brandId, slotType))

\* 0x6D2B79F5 = 27947 * 65536 + 31221
MulberryStep == << 31221, 27947 >>

\* state += 0x6D2B79F5: a sum of numbers, which nothing wraps
nextState(state) == Plus(state, MulberryStep)

\* the generator without its last step, returning t where it returns
\* (t ^ t >>> 14) >>> 0
MulberryUnmixed(state) ==
    LET t0 == state
        t1 == MathImul(BitXor(t0, ShiftRightU(t0, 15)), BitOr(t0, 1))
    IN  ToUint32(BitXor(t1, Plus(t1, MathImul(BitXor(t1, ShiftRightU(t1, 7)),
                                               BitOr(t1, 61)))))

\* What a call of the generator returns for the state it has just stored:
\* the numerator of ((t ^ t >>> 14) >>> 0) / 4294967296
MulberryOutput(state) ==
    LET t0 == state
        t1 == MathImul(BitXor(t0, ShiftRightU(t0, 15)), BitOr(t0, 1))
        t2 == BitXor(t1, Plus(t1, MathImul(BitXor(t1, ShiftRightU(t1, 7)),
                                           BitOr(t1, 61))))
    IN  ToUint32(BitXor(t2, ShiftRightU(t2, 14)))

\* the first value of createSeededRandom(seed)()
FirstRandom(seed) == MulberryOutput(nextState(seed))

RECURSIVE SumWeights(_)
SumWeights(ws) == IF ws = <<>> THEN 0 ELSE Head(ws) + SumWeights(Tail(ws))

\* floor(random() * totalWeight) for random() = num / 2^32; randomValue < c
\* for an integer c iff this floor is below c
ScaledFloor(num, totalWeight) ==
    (num[2] * totalWeight + ((num[1] * totalWeight) \div Limb)) \div Limb

RECURSIVE WalkWeightsInclusive(_, _, _, _)
\* the loop with randomValue <= cumulativeWeight as its test
WalkWeightsInclusive(ws, i, cumulative, r) ==
    IF i > Len(ws) THEN Len(ws)
    ELSE IF r <= cumulative + ws[i] THEN i
    ELSE WalkWeightsInclusive(ws, i + 1, cumulative + ws[i], r)

RECURSIVE WalkWeights(_, _, _, _)
WalkWeights(ws, i, cumulative, r) ==
    IF i > Len(ws) THEN Len(ws)
    ELSE IF r < cumulative + ws[i] THEN i
    ELSE WalkWeights(ws, i + 1, cumulative + ws[i], r)

\* weightedRandomSelect without its test of the total weight
weightedRandomSelectAnyTotal(items, weights, num) ==
    IF Len(items) = 0 \/ Len(items) # Len(weights) THEN 0
    ELSE WalkWeights(weights, 1, 0, ScaledFloor(num, SumWeights(weights)))

\* weightedRandomSelect: a 1-based index, 0 for the source's -1
weightedRandomSelect(items, weights, num) ==
    IF Len(items) = 0 \/ Len(items) # Len(weights) THEN 0
    ELSE IF SumWeights(weights) <= 0 THEN 0
    ELSE WalkWeights(weights, 1, 0, ScaledFloor(num, SumWeights(weights)))

\* selectDailyTask: the chosen task as <<task>>, <<>> for the source's null
selectDailyTask(tasks, date, brandId, slotType) ==
    IF Len(tasks) = 0 THEN <<>>
    ELSE LET seed    == generateSeed(date, brandId, slotType)
             num     == FirstRandom(seed)
             weights == [i \in 1..Len(tasks) |-> tasks[i].weight[1]]
             idx     == weightedRandomSelect(tasks, weights, num)
         IN  IF idx = 0 THEN <<>> ELSE << tasks[idx] >>

(***************************************************************************)
(* Data: kbd_task_pool rows, restaurants, dates                            *)
(***************************************************************************)
\* SQL NULL / JavaScript null: an optional value is <<>> or <<v>>
Null == <<>>

SlotTypes == {"lunch_open", "lunch_close", "dinner_open", "dinner_close"}

Restaurants == {"r1", "r2"}

\* master_restaurant.brand_id, as getBrandId returns it
getBrandId(restaurantId) == 1

MinutesPerDay == 24 * 60

\* Instant 0 is 2024-01-01T00:00:00Z, a Monday; instants count minutes.
\* now.toISOString().split('T')[0] for the days of January 2024
DateString(utcDay) ==
    <<"2","0","2","4","-","0","1","-">>
        \o << Digit((utcDay + 1) \div 10), Digit((utcDay + 1) % 10) >>

FloorDiv(a, b) == IF a >= 0 THEN a \div b ELSE -(((-a) + b - 1) \div b)

toISODate(now) == DateString(FloorDiv(now, MinutesPerDay))

\* now.getDay() in a zone tz minutes east of UTC: 0 = Sunday .. 6 = Saturday
getDay(now, tz) == (1 + FloorDiv(now + tz, MinutesPerDay) + 7) % 7

Task(id, routine, announced, brand, restaurant, weight, fdays, fslots, aslots, edate, eslot) ==
    [ id |-> id, is_routine |-> routine, is_announced |-> announced,
      is_active |-> TRUE, brand_id |-> brand, restaurant_id |-> restaurant,
      weight |-> weight, fixed_weekdays |-> fdays, fixed_slots |-> fslots,
      applicable_slots |-> aslots, execute_date |-> edate,
      execute_slot |-> eslot ]

AdhocTask(id, announced, brand, restaurant, day, slot) ==
    Task(id, FALSE, announced, brand, restaurant, <<100>>, {}, {}, {slot},
         DateString(day), <<slot>>)

RoutineTask(id, brand, weight, fdays, fslots, aslots) ==
    Task(id, TRUE, FALSE, brand, Null, weight, fdays, fslots, aslots,
         Null, Null)

\* The rows the store may hold
Catalog ==
    { AdhocTask("adhocStore",  TRUE,  <<1>>, <<"r1">>, 0, "dinner_close"),
      AdhocTask("adhocBrand",  TRUE,  <<1>>, Null,     0, "dinner_close"),
      AdhocTask("adhocGlobal", TRUE,  Null,  Null,     0, "dinner_close"),
      AdhocTask("adhocLate",   FALSE, <<1>>, Null,     0, "dinner_close"),
      RoutineTask("fixedMon", <<1>>, <<100>>, {1}, {"dinner_close"},
                  {"dinner_close"}),
      RoutineTask("routineA", <<1>>, <<100>>, {}, {}, SlotTypes),
      RoutineTask("routineB", Null,  Null,    {}, {}, SlotTypes),
      RoutineTask("routineZero", <<1>>, <<0>>, {}, {}, SlotTypes) }

\* the check-in windows, in minutes of the local day
TIME_WINDOWS ==
    [ lunch_open   |-> [start |-> 10 * 60,      end |-> 11 * 60 + 30],
      lunch_close  |-> [start |-> 13 * 60 + 30, end |-> 15 * 60 + 30],
      dinner_open  |-> [start |-> 16 * 60,      end |-> 17 * 60 + 30],
      dinner_close |-> [start |-> 21 * 60 + 30, end |-> 1 * 60] ]

(***************************************************************************)
(* State                                                                   *)
(***************************************************************************)
VARIABLES
    pool,       \* kbd_task_pool: the rows, in the order the store returns them
    cache,      \* per client: the IndexedDB daily_tasks store, {[key, task]}
    calls,      \* the getTodayTask calls (running or finished), by call id
    latest      \* the id of the call started last, 0 before the first

taskVars == << pool, cache, calls, latest >>

VARIABLES
    clock,                \* the wall clock, in seconds of local time
    suspended,            \* the page is hidden or the device asleep
    slotConfig,           \* TimeScheduler.slotConfig
    currentSlot,          \* TimeScheduler.currentSlot, Null for null
    mainTimer,            \* the pending transition timeout, Null if none
    preloadTimer,         \* the pending preload timeout, Null if none
    timeouts,             \* the host's pending timeouts, oldest first
    slotChangeCallbacks,  \* the registered listeners, in insertion order
    preloadCallbacks,     \* the registered preload listeners
    visibilityListeners,  \* how many visibilitychange handlers init added
    op,                   \* observer: the operation that ran last
    before,               \* observer: currentSlot before that operation
    slotCalls,            \* observer: the onSlotChange calls it made
    preloadCalls,         \* observer: the onPreload calls it made
    stopped,              \* observer: stop() ran and init has not since
    unregistered,         \* observer: the listeners whose unregister
                          \* function ran and that were not added since
    preloadedFor          \* observer: the slots the preload listeners were
                          \* called with since the last slot change, with
                          \* Rearmed where init or the visibility handler
                          \* ran in between; or Unobserved

schedVars ==
    << clock, suspended, slotConfig, currentSlot, mainTimer, preloadTimer,
       timeouts, slotChangeCallbacks, preloadCallbacks, visibilityListeners, op, before,
       slotCalls, preloadCalls, stopped, unregistered,
       preloadedFor >>

\* A run of utils/seeded-random on its own: the arguments of generateSeed and
\* the seed it returned; the seed a generator was created with, the state its
\* closure holds, the number of calls made and the numerator of the value the
\* last call returned; the arguments and the result of weightedRandomSelect
VARIABLES hashInput, hashSeed, rngSeed, rngState, rngCalls, rngValue,
          selItems, selWeights, selIndex

randomVars ==
    << hashInput, hashSeed, rngSeed, rngState, rngCalls, rngValue,
       selItems, selWeights, selIndex >>

\* The slot classifiers on their own: the instant they are asked about, in
\* seconds of the local day, and what each of them answered
VARIABLES sampleTime, slotBy

\* TimeControlModule
VARIABLES
    devTime,             \* devTime, Null for real time
    tickInterval,        \* the interval of startTicking is set
    onTimeWindowChange,  \* a callback is stored
    previousSlotType,    \* previousSlotType, Null for null
    realNow,             \* new Date(): the real clock, in seconds
    devOp,               \* observer: the operation that ran last
    devBefore,           \* observer: getCurrentTime() before it
    devInvoked,          \* observer: the onTimeWindowChange calls it made
    devSteps             \* observer: the operations counted so far

devVars ==
    << devTime, tickInterval, onTimeWindowChange, previousSlotType, realNow,
       devOp, devBefore, devInvoked, devSteps >>

\* AppModule
VARIABLES
    currentSlotType,  \* AppModule.currentSlotType, Null for null
    currentTask,      \* AppModule.currentTask, Null for null
    isInTimeWindow,   \* AppModule.isInTimeWindow
    slotNow,          \* what getCurrentTimeSlot answers at this time of day
    handlers          \* the runs of handleTimeWindowChange: where each
                      \* waits, and the slot its getTodayTask was given

appVars ==
    << currentSlotType, currentTask, isInTimeWindow, slotNow, handlers >>

\* The check-in records of one client
VARIABLES
    checkIns,      \* kbd_check_in_record: per restaurant, how many rows
    checkInCache,  \* the client's check_in_records store, per restaurant
    submitted,     \* observer: the record submitCheckIn returned and no
                   \* getCheckInHistory(r, 10, 0) has followed; or Null
    historyCall    \* observer: the call made last and what it returned

historyVars == << checkIns, checkInCache, submitted, historyCall >>

pageVars == << sampleTime, slotBy, devVars, appVars, historyVars >>

vars == << taskVars, schedVars, randomVars, pageVars >>

Clients == {1, 2}
CallIds == {1, 2}

\* minutes east of UTC of each client's zone: Asia/Shanghai and UTC
TimeZone(c) == IF c = 1 THEN 8 * 60 ELSE 0

NoResult  == [kind |-> "none",  task |-> Null]
NullResult == [kind |-> "null", task |-> Null]
ErrorResult == [kind |-> "error", task |-> Null]
TaskResult(t) == [kind |-> "task", task |-> <<t>>]

\* A call: the locals of getTodayTask, and what an observer records of it
\* (hit, queries, failed, wrote, changed, adhocAtReturn, cacheEmpty, tier)
IdleCall ==
    [ pc |-> "idle", client |-> 0, restaurantId |-> "", slotType |-> "",
      now |-> 0, today |-> <<>>, weekday |-> 0, brandId |-> 0,
      result |-> NoResult, hit |-> FALSE, queries |-> 0, failed |-> FALSE,
      wrote |-> FALSE, changed |-> FALSE, adhocAtReturn |-> FALSE,
      cacheEmpty |-> FALSE, tier |-> "none" ]

(***************************************************************************)
(* CacheService: daily_tasks                                               *)
(***************************************************************************)
\* getDailyTask: the cached task as <<task>>, Null on a miss
getDailyTask(store, date, brandId, slotType) ==
    LET key  == KeyString(date, brandId, slotType)
        hits == {e \in store : e.key = key}
    IN  IF hits = {} THEN Null ELSE << (CHOOSE e \in hits : TRUE).task >>

\* a cache that forgets what it is given
setDailyTaskDropped(store, date, brandId, slotType, task) == store

\* setDailyTask: put under the key path 'key', replacing an older entry
setDailyTask(store, date, brandId, slotType, task) ==
    LET key == KeyString(date, brandId, slotType)
    IN  {e \in store : e.key # key} \cup {[key |-> key, task |-> task]}

(***************************************************************************)
(* The three kbd_task_pool queries of getTodayTask, rows in store order    *)
(***************************************************************************)
\* the ad-hoc query without .eq('is_announced', true)
adhocQueryUnannounced(rows, today, slotType) ==
    LET Match(t) == /\ ~t.is_routine
                    /\ t.is_active
                    /\ t.execute_date = today
                    /\ t.execute_slot = <<slotType>>
    IN  SelectSeq(rows, Match)

adhocQuery(rows, today, slotType) ==
    LET Match(t) == /\ ~t.is_routine
                    /\ t.is_announced
                    /\ t.is_active
                    /\ t.execute_date = today
                    /\ t.execute_slot = <<slotType>>
    IN  SelectSeq(rows, Match)

fixedQuery(rows, weekday, slotType) ==
    LET Match(t) == /\ t.is_routine
                    /\ t.is_active
                    /\ weekday \in t.fixed_weekdays
                    /\ slotType \in t.fixed_slots
    IN  SelectSeq(rows, Match)

routineQuery(rows, slotType) ==
    LET Match(t) == /\ t.is_routine
                    /\ t.is_active
                    /\ slotType \in t.applicable_slots
    IN  SelectSeq(rows, Match)

\* the predicate of the ad-hoc tier's find
adhocInScope(t, brandId, restaurantId) ==
    /\ (t.brand_id = Null \/ t.brand_id = <<brandId>>)
    /\ (t.restaurant_id = Null \/ t.restaurant_id = <<restaurantId>>)

\* Array.prototype.find: the first row in scope, Null for undefined
findAdhoc(rows, brandId, restaurantId) ==
    LET InScope(t) == adhocInScope(t, brandId, restaurantId)
        found == SelectSeq(rows, InScope)
    IN  IF found = <<>> THEN Null ELSE << Head(found) >>

brandInScope(t, brandId) == t.brand_id = Null \/ t.brand_id = <<brandId>>

findFixed(rows, brandId) ==
    LET InScope(t) == brandInScope(t, brandId)
        found == SelectSeq(rows, InScope)
    IN  IF found = <<>> THEN Null ELSE << Head(found) >>

\* t.weight || 100
defaultWeight(w) == IF w = Null \/ w = <<0>> THEN 100 ELSE w[1]

filterRoutine(rows, brandId) ==
    LET InScope(t) == brandInScope(t, brandId)
        found == SelectSeq(rows, InScope)
    IN  [i \in 1..Len(found) |->
            [found[i] EXCEPT !.weight = << defaultWeight(found[i].weight) >>]]

(***************************************************************************)
(* KBDService.getTodayTask, one action per resumption of the async call    *)
(***************************************************************************)
\* What a query's await yields: "ok" {data: rows}, "error" {data: null,
\* error} (the destructuring drops error), "reject" a rejected promise.
QueryOutcomes == {"ok", "error", "reject"}

data(outcome, rows) == IF outcome = "ok" THEN rows ELSE <<>>

\* an announced, active ad-hoc row for (today, slot) in the restaurant's scope
AdhocPresent(rows, today, slotType, brandId, restaurantId) ==
    findAdhoc(adhocQuery(rows, today, slotType), brandId, restaurantId) # Null

Finish(call, result) ==
    [ call EXCEPT !.pc = "done", !.result = result,
                  !.adhocAtReturn = AdhocPresent(pool, call.today,
                        call.slotType, call.brandId, call.restaurantId) ]

\* lines 51-58: the call and its synchronous prefix
Start(k, c, restaurantId, slotType, now) ==
    /\ calls[k].pc \in {"idle", "done"}
    /\ calls' = [calls EXCEPT ![k] =
         [ IdleCall EXCEPT
             !.pc = "cache",
             !.client = c,
             !.restaurantId = restaurantId,
             !.slotType = slotType,
             !.now = now,
             !.today = toISODate(now),
             !.weekday = getDay(now, TimeZone(c)),
             !.brandId = getBrandId(restaurantId),
             !.cacheEmpty = (cache[c] = {}) ]]
    /\ latest' = k
    /\ UNCHANGED << pool, cache, schedVars, randomVars, pageVars >>

\* lines 60-64: the cache check
CacheCheck(k) ==
    LET call   == calls[k]
        cached == getDailyTask(cache[call.client], call.today, call.brandId,
                               call.slotType)
    IN  /\ call.pc = "cache"
        /\ calls' = [calls EXCEPT ![k] =
             IF cached # Null
             THEN Finish([call EXCEPT !.hit = TRUE], TaskResult(cached[1]))
             ELSE [call EXCEPT !.pc = "adhoc"]]
        /\ UNCHANGED << pool, cache, latest, schedVars, randomVars, pageVars >>

\* a tier found `task`: setDailyTask, then return it
ReturnTask(k, call, task, tier) ==
    /\ cache' = [cache EXCEPT ![call.client] =
         setDailyTask(@, call.today, call.brandId, call.slotType, task)]
    /\ calls' = [calls EXCEPT ![k] =
         Finish([call EXCEPT !.wrote = TRUE, !.tier = tier],
                TaskResult(task))]

\* the catch block rethrows
Throw(k, call) ==
    /\ calls' = [calls EXCEPT ![k] = Finish(call, ErrorResult)]
    /\ UNCHANGED cache

\* lines 68-86: the ad-hoc tier
QueryAdhoc(k, outcome) ==
    LET call0 == calls[k]
        call  == [call0 EXCEPT !.queries = @ + 1,
                               !.failed = @ \/ outcome # "ok"]
        rows  == data(outcome, adhocQuery(pool, call.today, call.slotType))
        found == findAdhoc(rows, call.brandId, call.restaurantId)
    IN  /\ call0.pc = "adhoc"
        /\ IF outcome = "reject" THEN Throw(k, call)
           ELSE IF found # Null THEN ReturnTask(k, call, found[1], "adhoc")
           ELSE /\ calls' = [calls EXCEPT ![k] = [call EXCEPT !.pc = "fixed"]]
                /\ UNCHANGED cache
        /\ UNCHANGED << pool, latest, schedVars, randomVars, pageVars >>

\* lines 88-104: the fixed routine tier
QueryFixed(k, outcome) ==
    LET call0 == calls[k]
        call  == [call0 EXCEPT !.queries = @ + 1,
                               !.failed = @ \/ outcome # "ok"]
        rows  == data(outcome, fixedQuery(pool, call.weekday, call.slotType))
        found == findFixed(rows, call.brandId)
    IN  /\ call0.pc = "fixed"
        /\ IF outcome = "reject" THEN Throw(k, call)
           ELSE IF found # Null THEN ReturnTask(k, call, found[1], "fixed")
           ELSE /\ calls' = [calls EXCEPT ![k] = [call EXCEPT !.pc = "routine"]]
                /\ UNCHANGED cache
        /\ UNCHANGED << pool, latest, schedVars, randomVars, pageVars >>

\* lines 106-133: the weighted random tier
QueryRoutine(k, outcome) ==
    LET call0 == calls[k]
        call  == [call0 EXCEPT !.queries = @ + 1,
                               !.failed = @ \/ outcome # "ok"]
        rows  == data(outcome, routineQuery(pool, call.slotType))
        filtered == filterRoutine(rows, call.brandId)
        selected == selectDailyTask(filtered, call.today, call.brandId,
                                    call.slotType)
    IN  /\ call0.pc = "routine"
        /\ IF outcome = "reject" THEN Throw(k, call)
           ELSE IF selected # Null
                THEN ReturnTask(k, call, selected[1], "routine")
           ELSE /\ calls' = [calls EXCEPT ![k] = Finish(call, NullResult)]
                /\ UNCHANGED cache
        /\ UNCHANGED << pool, latest, schedVars, randomVars, pageVars >>

\* The back office announces an ad-hoc task (is_announced := true)
Announce(i) ==
    /\ i \in 1..Len(pool)
    /\ ~pool[i].is_routine
    /\ ~pool[i].is_announced
    /\ pool' = [pool EXCEPT ![i].is_announced = TRUE]
    /\ calls' = [k \in CallIds |->
         IF calls[k].pc = "idle" THEN calls[k]
         ELSE [calls[k] EXCEPT !.changed = TRUE]]
    /\ UNCHANGED << cache, latest, schedVars, randomVars, pageVars >>

(***************************************************************************)
(* TimeScheduler                                                           *)
(***************************************************************************)
SecondsPerDay == 24 * 60 * 60

HMS(h, m, s) == (h * 60 + m) * 60 + s

\* now.toTimeString().slice(0, 8): the local HH:MM:SS. The zero-padded
\* strings compare as the seconds of the day they denote.
toTimeString(now) == now % SecondsPerDay

\* new Date(now) with setHours(h, m, s, 0), `days` days later
atTime(now, days, time) ==
    (now - (now % SecondsPerDay)) + days * SecondsPerDay + time

TimeSlotConfig(slot, active) ==
    [ slot_type    |-> slot,
      window_start |-> TIME_WINDOWS[slot].start * 60,
      window_end   |-> TIME_WINDOWS[slot].end * 60,
      is_active    |-> active ]

\* the configurations init is given: the four windows, one window of a
\* brand with an inactive row listed first, and the empty list
StandardConfig ==
    << TimeSlotConfig("lunch_open", TRUE), TimeSlotConfig("lunch_close", TRUE),
       TimeSlotConfig("dinner_open", TRUE),
       TimeSlotConfig("dinner_close", TRUE) >>

LunchOnlyConfig ==
    << TimeSlotConfig("dinner_open", FALSE), TimeSlotConfig("lunch_open", TRUE) >>

\* a list whose only row is inactive
ClosedConfig == << TimeSlotConfig("dinner_open", FALSE) >>

Configs == { StandardConfig, LunchOnlyConfig, ClosedConfig, << >> }

Listeners == {"a", "b"}
PreloadListeners == {"p"}

\* the listeners whose call throws
Throwing == {"a", "p"}

\* seeded-random not in use
RandomUnused ==
    /\ hashInput = << >>
    /\ hashSeed = << >>
    /\ rngSeed = << >>
    /\ rngState = << >>
    /\ rngCalls = 0
    /\ rngValue = << >>
    /\ selItems = << >>
    /\ selWeights = << >>
    /\ selIndex = << >>

\* the answer of a classifier that has not been asked
NotAsked == << "not asked" >>

Classifiers ==
    {"checkNow", "getCurrentTimeSlot", "getCurrentSlotType",
     "getPreviousTimeSlot"}

\* the classifiers not in use
ClassifiersUnused ==
    /\ sampleTime = 0
    /\ slotBy = [c \in Classifiers |-> NotAsked]

\* the page's other modules not in use
\* TimeControlModule not in use
DevUnused ==
    /\ devTime = Null
    /\ tickInterval = FALSE
    /\ onTimeWindowChange = FALSE
    /\ previousSlotType = Null
    /\ realNow = 0
    /\ devOp = "none"
    /\ devBefore = 0
    /\ devInvoked = 0
    /\ devSteps = 0

\* AppModule not in use
AppUnused ==
    /\ currentSlotType = Null
    /\ currentTask = Null
    /\ isInTimeWindow = FALSE
    /\ slotNow = Null
    /\ handlers = << >>

\* the check-in records not in use
HistoryUnused ==
    /\ checkIns = << >>
    /\ checkInCache = << >>
    /\ submitted = << >>
    /\ historyCall = << >>

PageUnused ==
    /\ ClassifiersUnused
    /\ DevUnused
    /\ AppUnused
    /\ HistoryUnused

\* the preload observer when it is not kept
Unobserved == << "unobserved" >>

\* the observer's mark for a scheduleNext run by init or on becoming visible
Rearmed == "rearmed"

\* the state of the class when the module is loaded (lines 357-362)
SchedulerLoaded ==
    /\ clock = 0
    /\ suspended = FALSE
    /\ slotConfig = << >>
    /\ currentSlot = Null
    /\ mainTimer = Null
    /\ preloadTimer = Null
    /\ timeouts = << >>
    /\ slotChangeCallbacks = << >>
    /\ preloadCallbacks = << >>
    /\ visibilityListeners = 0
    /\ op = "none"
    /\ before = Null
    /\ slotCalls = << >>
    /\ preloadCalls = << >>
    /\ stopped = FALSE
    /\ unregistered = {}
    /\ preloadedFor = Unobserved

\* the loop of checkNow without the midnight-crossing case: every window is
\* tested as start <= time <= end
RECURSIVE deriveSlotSameDay(_, _, _)
deriveSlotSameDay(config, i, currentTimeStr) ==
    IF i > Len(config) THEN Null
    ELSE IF /\ config[i].is_active
            /\ currentTimeStr >= config[i].window_start
            /\ currentTimeStr <= config[i].window_end
         THEN << config[i].slot_type >>
         ELSE deriveSlotSameDay(config, i + 1, currentTimeStr)

\* checkNow, lines 482-505: the first active row whose window holds the time
RECURSIVE deriveSlot(_, _, _)
deriveSlot(config, i, currentTimeStr) ==
    IF i > Len(config) THEN Null
    ELSE LET start == config[i].window_start
             end   == config[i].window_end
         IN  IF ~config[i].is_active
             THEN deriveSlot(config, i + 1, currentTimeStr)
             ELSE IF end < start
             THEN IF currentTimeStr >= start \/ currentTimeStr <= end
                  THEN << config[i].slot_type >>
                  ELSE deriveSlot(config, i + 1, currentTimeStr)
             ELSE IF currentTimeStr >= start /\ currentTimeStr <= end
                  THEN << config[i].slot_type >>
                  ELSE deriveSlot(config, i + 1, currentTimeStr)

newSlotAt(config, now) == deriveSlot(config, 1, toTimeString(now))

\* one call cb(newSlot, previousSlot), and whether it threw
SlotCall(cb, newSlot, previousSlot) ==
    [cb |-> cb, newSlot |-> newSlot, previousSlot |-> previousSlot,
     threw |-> cb \in Throwing]

\* one call cb(upcomingSlot), and whether it threw
PreloadCall(cb, upcomingSlot) ==
    [cb |-> cb, upcomingSlot |-> upcomingSlot, threw |-> cb \in Throwing]

\* a forEach whose callback has no try/catch: the first call that throws
\* ends the loop
RECURSIVE notifyUncaught(_, _, _)
notifyUncaught(callbacks, newSlot, previousSlot) ==
    IF callbacks = << >> THEN << >>
    ELSE IF Head(callbacks) \in Throwing
    THEN << SlotCall(Head(callbacks), newSlot, previousSlot) >>
    ELSE << SlotCall(Head(callbacks), newSlot, previousSlot) >>
         \o notifyUncaught(Tail(callbacks), newSlot, previousSlot)

\* slotChangeCallbacks.forEach(cb => { try { cb(newSlot, previousSlot) }
\* catch (e) {} }): in insertion order, a throw is caught and the loop goes on
RECURSIVE notify(_, _, _)
notify(callbacks, newSlot, previousSlot) ==
    IF callbacks = << >> THEN << >>
    ELSE << SlotCall(Head(callbacks), newSlot, previousSlot) >>
         \o notify(Tail(callbacks), newSlot, previousSlot)

\* preloadCallbacks.forEach(cb => { try { cb(slot) } catch (e) {} })
RECURSIVE notifyPreload(_, _)
notifyPreload(callbacks, upcomingSlot) ==
    IF callbacks = << >> THEN << >>
    ELSE << PreloadCall(Head(callbacks), upcomingSlot) >>
         \o notifyPreload(Tail(callbacks), upcomingSlot)

\* a checkNow that also reports a change to null
notifyAnyChange(callbacks, newSlot, stored) ==
    IF newSlot # stored THEN notify(callbacks, newSlot, stored) ELSE << >>

\* checkNow, lines 507-519: the calls made for a derived slot
checkNowCalls(callbacks, newSlot, stored) ==
    IF newSlot # stored /\ newSlot # Null
    THEN notify(callbacks, newSlot, stored)
    ELSE << >>

\* getNextSlotInfo whose loop also takes a window that starts this second
getNextSlotInfoInclusive(config, now) ==
    LET currentTimeStr == toTimeString(now)
        IsActive(c) == c.is_active
        active == SelectSeq(config, IsActive)
        \* the first, in the stable sort by window_start, of the rows in S
        First(S) == CHOOSE i \in S : \A j \in S :
                        \/ active[i].window_start < active[j].window_start
                        \/ /\ active[i].window_start = active[j].window_start
                           /\ i <= j
        upcoming == { i \in 1..Len(active) :
                        active[i].window_start >= currentTimeStr }
    IN  IF Len(config) = 0 THEN Null
        ELSE IF upcoming # {}
        THEN << [slot     |-> active[First(upcoming)].slot_type,
                 startsAt |-> atTime(now, 0,
                                active[First(upcoming)].window_start)] >>
        ELSE IF Len(active) > 0
        THEN << [slot     |-> active[First(1..Len(active))].slot_type,
                 startsAt |-> atTime(now, 1,
                                active[First(1..Len(active))].window_start)] >>
        ELSE Null

\* getNextSlotInfo without the filter on is_active
getNextSlotInfoAnyRow(config, now) ==
    LET currentTimeStr == toTimeString(now)
        active == config
        \* the first, in the stable sort by window_start, of the rows in S
        First(S) == CHOOSE i \in S : \A j \in S :
                        \/ active[i].window_start < active[j].window_start
                        \/ /\ active[i].window_start = active[j].window_start
                           /\ i <= j
        upcoming == { i \in 1..Len(active) :
                        active[i].window_start > currentTimeStr }
    IN  IF Len(config) = 0 THEN Null
        ELSE IF upcoming # {}
        THEN << [slot     |-> active[First(upcoming)].slot_type,
                 startsAt |-> atTime(now, 0,
                                active[First(upcoming)].window_start)] >>
        ELSE IF Len(active) > 0
        THEN << [slot     |-> active[First(1..Len(active))].slot_type,
                 startsAt |-> atTime(now, 1,
                                active[First(1..Len(active))].window_start)] >>
        ELSE Null

\* getNextSlotInfo, lines 422-464: Null for null
getNextSlotInfo(config, now) ==
    LET currentTimeStr == toTimeString(now)
        IsActive(c) == c.is_active
        active == SelectSeq(config, IsActive)
        \* the first, in the stable sort by window_start, of the rows in S
        First(S) == CHOOSE i \in S : \A j \in S :
                        \/ active[i].window_start < active[j].window_start
                        \/ /\ active[i].window_start = active[j].window_start
                           /\ i <= j
        upcoming == { i \in 1..Len(active) :
                        active[i].window_start > currentTimeStr }
    IN  IF Len(config) = 0 THEN Null
        ELSE IF upcoming # {}
        THEN << [slot     |-> active[First(upcoming)].slot_type,
                 startsAt |-> atTime(now, 0,
                                active[First(upcoming)].window_start)] >>
        ELSE IF Len(active) > 0
        THEN << [slot     |-> active[First(1..Len(active))].slot_type,
                 startsAt |-> atTime(now, 1,
                                active[First(1..Len(active))].window_start)] >>
        ELSE Null

\* scheduleNext, line 546: the preload lead, in seconds
PreloadLead == 5 * 60

\* scheduleNext, lines 560-576: the transition timeout it leaves pending
scheduleMain(config, now) ==
    LET nextSlotInfo == getNextSlotInfo(config, now)
    IN  IF nextSlotInfo = Null THEN Null
        ELSE IF nextSlotInfo[1].startsAt - now > 0
        THEN << [due |-> nextSlotInfo[1].startsAt,
                 slot |-> nextSlotInfo[1].slot] >>
        ELSE Null

\* a scheduleNext that sets the preload timeout whenever a transition is
\* coming, without the test msUntilPreload > 0
schedulePreloadUntested(config, now) ==
    LET nextSlotInfo == getNextSlotInfo(config, now)
    IN  IF nextSlotInfo = Null THEN Null
        ELSE << [due |-> nextSlotInfo[1].startsAt - PreloadLead,
                 slot |-> nextSlotInfo[1].slot] >>

\* scheduleNext, lines 548-558: the preload timeout it leaves pending
schedulePreload(config, now) ==
    LET nextSlotInfo == getNextSlotInfo(config, now)
    IN  IF nextSlotInfo = Null THEN Null
        ELSE IF nextSlotInfo[1].startsAt - now - PreloadLead > 0
        THEN << [due |-> nextSlotInfo[1].startsAt - PreloadLead,
                 slot |-> nextSlotInfo[1].slot] >>
        ELSE Null

\* a timeout of the host: its callback, its due time, the slot in its closure
Timeout(kind, timer) ==
    [kind |-> kind, due |-> timer.due, slot |-> timer.slot]

\* a host that keeps a timeout pending after it ran or was cleared
WithoutNothing(pending, i) == pending

\* the pending timeouts without the i-th
Without(pending, i) ==
    SubSeq(pending, 1, i - 1) \o SubSeq(pending, i + 1, Len(pending))

\* a clearTimeout that cancels nothing
clearNothing(pending, kind, handle) == pending

\* if (handle) clearTimeout(handle): the timeout the field refers to, if it
\* is still pending, is cancelled
clearTimeout(pending, kind, handle) ==
    LET hits == IF handle = Null THEN {}
                ELSE { i \in DOMAIN pending :
                         pending[i] = Timeout(kind, handle[1]) }
    IN  IF hits = {} THEN pending
        ELSE Without(pending, CHOOSE i \in hits : \A j \in hits : i <= j)

\* field = setTimeout(callback, delay), for the timeout scheduleNext decided
\* on; Null when it decided on none
setTimeout(pending, kind, handle) ==
    IF handle = Null THEN pending
    ELSE Append(pending, Timeout(kind, handle[1]))

\* a scheduleNext that cancels the timers and arms the preload, and sets no
\* transition timeout
scheduleNextUnarmed(pending, config, now, main, preload) ==
    LET cleared == clearTimeout(clearTimeout(pending, "main", main),
                                "preload", preload)
    IN  setTimeout(cleared, "preload", schedulePreload(config, now))

\* scheduleNext, lines 534-577: the pending timeouts it leaves, main and
\* preload being the fields when it is called
scheduleNext(pending, config, now, main, preload) ==
    LET cleared == clearTimeout(clearTimeout(pending, "main", main),
                                "preload", preload)
    IN  setTimeout(setTimeout(cleared, "preload",
                              schedulePreload(config, now)),
                   "main", scheduleMain(config, now))

\* the observer's books after an operation that made the calls `made`
Observe(name, made, preloads) ==
    /\ op' = name
    /\ before' = currentSlot
    /\ slotCalls' = made
    /\ preloadCalls' = preloads
    /\ preloadedFor' =
          IF preloadedFor = Unobserved THEN preloadedFor
          ELSE IF \/ name = "mainTimer"
                  \/ /\ name \in {"init", "checkNow", "visible"}
                     /\ currentSlot' # currentSlot
                     /\ currentSlot' # Null
          THEN << >>
          ELSE IF preloads # << >>
          THEN Append(preloadedFor, preloads[1].upcomingSlot)
          ELSE IF /\ name \in {"init", "visible"}
                  /\ preloadedFor # << >>
                  /\ preloadedFor[Len(preloadedFor)] # Rearmed
          THEN Append(preloadedFor, Rearmed)
          ELSE preloadedFor

\* how often init is called, and how many days the clock runs
MaxInits == 2
MaxDays == 2

\* the times of day the clock is observed at
ObservedTimes ==
    { HMS(0, 30, 0), HMS(1, 0, 1), HMS(10, 0, 0), HMS(11, 30, 0),
      HMS(21, 27, 0) }

\* init, lines 368-384
init(config) ==
    /\ visibilityListeners < MaxInits
    /\ slotConfig' = config
    /\ currentSlot' = newSlotAt(config, clock)
    /\ mainTimer' = scheduleMain(config, clock)
    /\ preloadTimer' = schedulePreload(config, clock)
    /\ timeouts' = scheduleNext(timeouts, config, clock, mainTimer,
                                preloadTimer)
    /\ visibilityListeners' = visibilityListeners + 1
    /\ stopped' = FALSE
    /\ Observe("init",
               checkNowCalls(slotChangeCallbacks,
                             newSlotAt(config, clock), currentSlot),
               << >>)
    /\ UNCHANGED << clock, suspended, slotChangeCallbacks, preloadCallbacks,
                    unregistered,
                    taskVars, randomVars, pageVars >>

\* Set.prototype.add: a member is not added twice
add(callbacks, cb) ==
    IF \E i \in 1..Len(callbacks) : callbacks[i] = cb THEN callbacks
    ELSE Append(callbacks, cb)

\* onSlotChange, lines 391-396, of a callback not yet registered
onSlotChange(cb) ==
    /\ add(slotChangeCallbacks, cb) # slotChangeCallbacks
    /\ slotChangeCallbacks' = add(slotChangeCallbacks, cb)
    /\ unregistered' = unregistered \ {cb}
    /\ Observe("onSlotChange", << >>, << >>)
    /\ UNCHANGED << clock, suspended, slotConfig, currentSlot, mainTimer, timeouts,
                    preloadTimer, preloadCallbacks, visibilityListeners,
                    stopped, taskVars, randomVars, pageVars >>

\* onPreload, lines 403-408, of a callback not yet registered
onPreload(cb) ==
    /\ add(preloadCallbacks, cb) # preloadCallbacks
    /\ preloadCallbacks' = add(preloadCallbacks, cb)
    /\ unregistered' = unregistered \ {cb}
    /\ Observe("onPreload", << >>, << >>)
    /\ UNCHANGED << clock, suspended, slotConfig, currentSlot, mainTimer, timeouts,
                    preloadTimer, slotChangeCallbacks, visibilityListeners,
                    stopped, taskVars, randomVars, pageVars >>

\* a Set.delete that removes nothing
deleteNothing(callbacks, cb) == callbacks

\* Set.prototype.delete: the Set without cb, the others in their order
delete(callbacks, cb) ==
    LET Other(x) == x # cb
    IN  SelectSeq(callbacks, Other)

\* the function onSlotChange(cb) returned, lines 393-395; called for a
\* listener that is not in the Set it changes nothing
unsubscribeSlotChange(cb) ==
    /\ \E i \in DOMAIN slotChangeCallbacks : slotChangeCallbacks[i] = cb
    /\ slotChangeCallbacks' = delete(slotChangeCallbacks, cb)
    /\ unregistered' = unregistered \cup {cb}
    /\ Observe("unsubscribeSlotChange", << >>, << >>)
    /\ UNCHANGED << clock, suspended, slotConfig, currentSlot, mainTimer,
                    timeouts, preloadTimer, preloadCallbacks,
                    visibilityListeners, stopped, taskVars, randomVars, pageVars >>

\* the function onPreload(cb) returned, lines 405-407
unsubscribePreload(cb) ==
    /\ \E i \in DOMAIN preloadCallbacks : preloadCallbacks[i] = cb
    /\ preloadCallbacks' = delete(preloadCallbacks, cb)
    /\ unregistered' = unregistered \cup {cb}
    /\ Observe("unsubscribePreload", << >>, << >>)
    /\ UNCHANGED << clock, suspended, slotConfig, currentSlot, mainTimer,
                    timeouts, preloadTimer, slotChangeCallbacks,
                    visibilityListeners, stopped, taskVars, randomVars, pageVars >>

\* stop, lines 469-476
stop ==
    /\ mainTimer' = Null
    /\ preloadTimer' = Null
    /\ timeouts' = clearTimeout(clearTimeout(timeouts, "main", mainTimer),
                                "preload", preloadTimer)
    /\ slotChangeCallbacks' = << >>
    /\ preloadCallbacks' = << >>
    /\ stopped' = TRUE
    /\ Observe("stop", << >>, << >>)
    /\ UNCHANGED << clock, suspended, slotConfig, currentSlot,
                    visibilityListeners, unregistered,
                    taskVars, randomVars, pageVars >>

\* checkNow, lines 481-520, called from outside the class
checkNow ==
    /\ currentSlot' = newSlotAt(slotConfig, clock)
    /\ Observe("checkNow",
               checkNowCalls(slotChangeCallbacks,
                             newSlotAt(slotConfig, clock), currentSlot),
               << >>)
    /\ UNCHANGED << clock, suspended, slotConfig, mainTimer, timeouts, preloadTimer,
                    slotChangeCallbacks, preloadCallbacks,
                    visibilityListeners, stopped, unregistered,
                    taskVars, randomVars, pageVars >>

\* the transition timeout's callback, lines 561-575, run at or after its due
\* time with the slot of its closure: scheduleNext runs at the end of it
mainTimerFires ==
    \E i \in DOMAIN timeouts :
        /\ timeouts[i].kind = "main"
        /\ timeouts[i].due <= clock
        /\ currentSlot' = << timeouts[i].slot >>
        /\ mainTimer' = scheduleMain(slotConfig, clock)
        /\ preloadTimer' = schedulePreload(slotConfig, clock)
        /\ timeouts' = scheduleNext(Without(timeouts, i), slotConfig, clock,
                                    mainTimer, preloadTimer)
        /\ Observe("mainTimer",
                   notify(slotChangeCallbacks, << timeouts[i].slot >>,
                          currentSlot),
                   << >>)
        /\ UNCHANGED << clock, suspended, slotConfig, slotChangeCallbacks,
                        preloadCallbacks, visibilityListeners, stopped,
                        unregistered,
                        taskVars, randomVars, pageVars >>

\* the preload timeout's callback, lines 549-557
preloadTimerFires ==
    \E i \in DOMAIN timeouts :
        /\ timeouts[i].kind = "preload"
        /\ timeouts[i].due <= clock
        /\ preloadTimer' = IF preloadTimer = << [due |-> timeouts[i].due,
                                                 slot |-> timeouts[i].slot] >>
                           THEN Null ELSE preloadTimer
        /\ timeouts' = Without(timeouts, i)
        /\ Observe("preloadTimer", << >>,
                   notifyPreload(preloadCallbacks, timeouts[i].slot))
        /\ UNCHANGED << clock, suspended, slotConfig, currentSlot, mainTimer,
                        slotChangeCallbacks, preloadCallbacks,
                        visibilityListeners, stopped, unregistered,
                        taskVars, randomVars, pageVars >>

\* the calls of n visibilitychange handlers run one after the other, each a
\* checkNow followed by scheduleNext (lines 377-383)
RECURSIVE handlerCalls(_, _)
handlerCalls(n, stored) ==
    IF n = 0 THEN << >>
    ELSE checkNowCalls(slotChangeCallbacks, newSlotAt(slotConfig, clock),
                       stored)
         \o handlerCalls(n - 1, newSlotAt(slotConfig, clock))

\* a visibilitychange handler that leaves the timers as they were
handlerKeepsTimers(n, pending, main, preload) == pending

\* the pending timeouts after n handlers ran scheduleNext one after the other
RECURSIVE handlerTimeouts(_, _, _, _)
handlerTimeouts(n, pending, main, preload) ==
    IF n = 0 THEN pending
    ELSE handlerTimeouts(n - 1,
             scheduleNext(pending, slotConfig, clock, main, preload),
             scheduleMain(slotConfig, clock),
             schedulePreload(slotConfig, clock))

\* the page becomes visible again: every handler init added runs
visibilityVisible ==
    /\ suspended
    /\ suspended' = FALSE
    /\ IF visibilityListeners = 0
       THEN UNCHANGED << currentSlot, mainTimer, preloadTimer, timeouts >>
       ELSE /\ currentSlot' = newSlotAt(slotConfig, clock)
            /\ mainTimer' = scheduleMain(slotConfig, clock)
            /\ preloadTimer' = schedulePreload(slotConfig, clock)
            /\ timeouts' = handlerTimeouts(visibilityListeners, timeouts,
                                           mainTimer, preloadTimer)
    /\ Observe("visible", handlerCalls(visibilityListeners, currentSlot),
               << >>)
    /\ UNCHANGED << clock, slotConfig, slotChangeCallbacks, preloadCallbacks,
                    visibilityListeners, stopped, unregistered,
                    taskVars, randomVars, pageVars >>

\* the page is hidden or the device sleeps: the handlers see 'hidden' and
\* do nothing; timeouts may from now on run late
visibilityHidden ==
    /\ ~suspended
    /\ suspended' = TRUE
    /\ Observe("hidden", << >>, << >>)
    /\ UNCHANGED << clock, slotConfig, currentSlot, mainTimer, timeouts, preloadTimer,
                    slotChangeCallbacks, preloadCallbacks,
                    visibilityListeners, stopped, unregistered,
                    taskVars, randomVars, pageVars >>

\* the due times of the pending timeouts
dueTimes == { timeouts[i].due : i \in DOMAIN timeouts }

\* the instants the clock is observed at: the observed times of each day
\* and the due times of the pending timeouts
laterInstants ==
    { t \in { d * SecondsPerDay + s : d \in 0..(MaxDays - 1),
                                       s \in ObservedTimes } \cup dueTimes :
        t > clock /\ t < MaxDays * SecondsPerDay }

\* Time passes to the next instant. While the page is visible a timeout
\* runs before the clock passes its due time.
Advance ==
    /\ laterInstants # {}
    /\ suspended \/ \A t \in dueTimes : t > clock
    /\ clock' = CHOOSE t \in laterInstants : \A u \in laterInstants : t <= u
    /\ Observe("advance", << >>, << >>)
    /\ UNCHANGED << suspended, slotConfig, currentSlot, mainTimer, timeouts,
                    preloadTimer, slotChangeCallbacks, preloadCallbacks,
                    visibilityListeners, stopped, unregistered,
                    taskVars, randomVars, pageVars >>

(***************************************************************************)
(* Specification of the scheduler                                          *)
(***************************************************************************)
SchedInit ==
    /\ pool = << >>
    /\ cache = [c \in Clients |-> {}]
    /\ calls = [k \in CallIds |-> IdleCall]
    /\ latest = 0
    /\ SchedulerLoaded
    /\ RandomUnused
    /\ PageUnused

SchedNext ==
    \/ \E config \in Configs : init(config)
    \/ \E cb \in Listeners : onSlotChange(cb)
    \/ \E cb \in PreloadListeners : onPreload(cb)
    \/ stop
    \/ checkNow
    \/ mainTimerFires
    \/ preloadTimerFires
    \/ visibilityVisible
    \/ visibilityHidden
    \/ Advance

SpecSched == SchedInit /\ [][SchedNext]_vars

(***************************************************************************)
(* The scheduler on a page that stays visible, its timeouts run when due:  *)
(* a timeout that has reached its due time runs before anything else does, *)
(* and the transition timeout's callback is not put off for ever.          *)
(***************************************************************************)
timerDue == \E t \in dueTimes : t <= clock

ChainNext ==
    \/ ~timerDue /\ \E config \in Configs : init(config)
    \/ ~timerDue /\ \E cb \in Listeners : onSlotChange(cb)
    \/ ~timerDue /\ \E cb \in PreloadListeners : onPreload(cb)
    \/ ~timerDue /\ stop
    \/ ~timerDue /\ checkNow
    \/ mainTimerFires
    \/ preloadTimerFires
    \/ Advance

SpecChain == SchedInit /\ [][ChainNext]_vars /\ WF_vars(mainTimerFires)

(***************************************************************************)
(* The scheduler with listeners coming and going: two onSlotChange and two *)
(* preload listeners are registered and unregistered, in any order, while  *)
(* the timers run.                                                         *)
(***************************************************************************)
UnregPreloadListeners == {"p", "q"}

UnregNext ==
    \/ \E config \in {StandardConfig} : init(config)
    \/ \E cb \in Listeners : onSlotChange(cb)
    \/ \E cb \in UnregPreloadListeners : onPreload(cb)
    \/ \E cb \in Listeners : unsubscribeSlotChange(cb)
    \/ \E cb \in UnregPreloadListeners : unsubscribePreload(cb)
    \/ checkNow
    \/ mainTimerFires
    \/ preloadTimerFires
    \/ Advance

SpecUnreg == SchedInit /\ [][UnregNext]_vars

(***************************************************************************)
(* The scheduler under one config, its timers running on time or late and  *)
(* the page being hidden and shown, with the preload calls since the last  *)
(* slot change kept.                                                       *)
(***************************************************************************)
PreloadInit ==
    /\ pool = << >>
    /\ cache = [c \in Clients |-> {}]
    /\ calls = [k \in CallIds |-> IdleCall]
    /\ latest = 0
    /\ clock = 0
    /\ suspended = FALSE
    /\ slotConfig = << >>
    /\ currentSlot = Null
    /\ mainTimer = Null
    /\ preloadTimer = Null
    /\ timeouts = << >>
    /\ slotChangeCallbacks = << >>
    /\ preloadCallbacks = << >>
    /\ visibilityListeners = 0
    /\ op = "none"
    /\ before = Null
    /\ slotCalls = << >>
    /\ preloadCalls = << >>
    /\ stopped = FALSE
    /\ unregistered = {}
    /\ preloadedFor = << >>
    /\ RandomUnused
    /\ PageUnused

PreloadNext ==
    \/ \E config \in {StandardConfig} : init(config)
    \/ \E cb \in PreloadListeners : onPreload(cb)
    \/ mainTimerFires
    \/ preloadTimerFires
    \/ visibilityVisible
    \/ visibilityHidden
    \/ Advance

SpecPreload == PreloadInit /\ [][PreloadNext]_vars

(***************************************************************************)
(* Specifications of the resolver                                          *)
(***************************************************************************)
MaxPool == 3
MaxSeqPool == 2

\* store contents: up to n distinct rows of the catalog, in any order
PoolsUpTo(n) ==
    UNION { { q \in [1..m -> Catalog] :
                \A i, j \in 1..m : i # j => q[i].id # q[j].id } :
            m \in 0..n }

\* The instants of the calls, in minutes after 2024-01-01T00:00Z:
\* Jan 1 16:30Z, Jan 1 23:50Z and Jan 2 00:30Z
Instants == {16 * 60 + 30, 23 * 60 + 50, 24 * 60 + 30}

CallSlots == {"dinner_close"}

Running(k) == calls[k].pc \notin {"idle", "done"}

Resume(outcomes) ==
    \/ \E k \in CallIds : CacheCheck(k)
    \/ \E k \in CallIds, o \in outcomes : QueryAdhoc(k, o)
    \/ \E k \in CallIds, o \in outcomes : QueryFixed(k, o)
    \/ \E k \in CallIds, o \in outcomes : QueryRoutine(k, o)

\* Spec: one call on a client whose cache is empty, over any store contents
TaskInit ==
    /\ pool \in PoolsUpTo(MaxPool)
    /\ cache = [c \in Clients |-> {}]
    /\ calls = [k \in CallIds |-> IdleCall]
    /\ latest = 0
    /\ SchedulerLoaded
    /\ RandomUnused
    /\ PageUnused

FirstCall ==
    \E c \in Clients, r \in Restaurants, s \in CallSlots, n \in Instants :
        latest = 0 /\ Start(1, c, r, s, n)

TaskNext ==
    \/ FirstCall
    \/ Resume(QueryOutcomes)
    \/ \E i \in 1..MaxPool : Announce(i)

Spec == TaskInit /\ [][TaskNext]_vars

\* SpecSeq: two calls, the second made after the first has returned
SeqInit ==
    /\ pool \in PoolsUpTo(MaxSeqPool)
    /\ cache = [c \in Clients |-> {}]
    /\ calls = [k \in CallIds |-> IdleCall]
    /\ latest = 0
    /\ SchedulerLoaded
    /\ RandomUnused
    /\ PageUnused

NextCall ==
    \E k \in CallIds, c \in Clients, r \in Restaurants, s \in CallSlots,
       n \in Instants :
        /\ k = latest + 1
        /\ \A j \in CallIds : ~Running(j)
        /\ Start(k, c, r, s, n)

SeqNext ==
    \/ NextCall
    \/ Resume({"ok"})
    \/ \E i \in 1..MaxSeqPool : Announce(i)

SpecSeq == SeqInit /\ [][SeqNext]_vars

\* SpecConc: two calls on one client over a store that does not change and
\* answers every query, the second made while the first is awaiting (as the
\* four calls of preloadTasksForAllSlots' Promise.all, lines 143-147, and
\* the page's own call are)
ConcurrentCall ==
    \E k \in CallIds, c \in Clients, r \in Restaurants, s \in CallSlots,
       n \in Instants :
        /\ k = latest + 1
        /\ latest # 0 => /\ Running(latest)
                         /\ c = calls[latest].client
        /\ Start(k, c, r, s, n)

ConcNext ==
    \/ ConcurrentCall
    \/ Resume({"ok"})

SpecConc == SeqInit /\ [][ConcNext]_vars

(***************************************************************************)
(* seeded-random on its own: generateSeed is applied to a key, a generator *)
(* is created from that seed, or from a seed given directly, and called,   *)
(* and weightedRandomSelect is applied to a list of items and a list of    *)
(* weights with the generator as its random argument.                      *)
(***************************************************************************)
MaxSeedDay == 1
MaxItems == 3
MaxDraws == 3

SeedBrands == {1, 12}
WeightValues == -1 .. 2

SeedInputs ==
    { [date |-> DateString(d), brandId |-> b, slotType |-> sl] :
        d \in 0 .. MaxSeedDay, b \in SeedBrands, sl \in SlotTypes }

\* seeds at the ends of the range and around the first wrap of the state:
\* 0, 1, 2^32 - 0x6D2B79F5, 2^32 - 1
SeedSamples ==
    { << 0, 0 >>, << 1, 0 >>, << 34315, 37588 >>, << 65535, 65535 >> }

ItemLists == { [i \in 1 .. n |-> i] : n \in 0 .. MaxItems }

WeightLists ==
    UNION { [1 .. n -> WeightValues] : n \in 0 .. MaxItems }

RandomInit ==
    /\ pool = << >>
    /\ cache = [c \in Clients |-> {}]
    /\ calls = [k \in CallIds |-> IdleCall]
    /\ latest = 0
    /\ SchedulerLoaded
    /\ PageUnused
    /\ \/ /\ hashInput \in { << i >> : i \in SeedInputs }
          /\ hashSeed = << >>
       \/ /\ hashInput = << >>
          /\ hashSeed \in { << seed >> : seed \in SeedSamples }
    /\ rngSeed = << >>
    /\ rngState = << >>
    /\ rngCalls = 0
    /\ rngValue = << >>
    /\ selItems = << >>
    /\ selWeights = << >>
    /\ selIndex = << >>

\* seed = generateSeed(date, brandId, slotType)
callGenerateSeed ==
    /\ hashInput # << >>
    /\ hashSeed = << >>
    /\ hashSeed' = << generateSeed(hashInput[1].date, hashInput[1].brandId,
                                   hashInput[1].slotType) >>
    /\ UNCHANGED << hashInput, rngSeed, rngState, rngCalls, rngValue,
                    selItems, selWeights, selIndex, taskVars, schedVars, pageVars >>

\* random = createSeededRandom(seed): let state = seed
createSeededRandom(seed) ==
    /\ rngSeed = << >>
    /\ hashSeed = << seed >>
    /\ rngSeed' = << seed >>
    /\ rngState' = << seed >>
    /\ UNCHANGED << hashInput, hashSeed, rngCalls, rngValue,
                    selItems, selWeights, selIndex, taskVars, schedVars, pageVars >>

\* one call of the closure, returning the numerator num:
\*   let t = state += 0x6D2B79F5; ...; return ((t ^ t >>> 14) >>> 0) / 2^32
callRandom(num) ==
    /\ rngState' = << nextState(rngState[1]) >>
    /\ rngValue' = << num >>
    /\ rngCalls' = rngCalls + 1

\* random()
random ==
    /\ rngState # << >>
    /\ selIndex = << >>
    /\ rngCalls < MaxDraws
    /\ callRandom(MulberryOutput(nextState(rngState[1])))
    /\ UNCHANGED << hashInput, hashSeed, rngSeed, selItems, selWeights,
                    selIndex, taskVars, schedVars, pageVars >>

\* whether weightedRandomSelect gets as far as calling random()
reachesRandom(items, weights) ==
    /\ ~(Len(items) = 0 \/ Len(items) # Len(weights))
    /\ ~(SumWeights(weights) <= 0)

\* weightedRandomSelect(items, weights, random), num being the numerator of
\* what random() returns when it is called
select(items, weights, num) ==
    /\ selItems' = items
    /\ selWeights' = weights
    /\ selIndex' = << weightedRandomSelect(items, weights, num) >>
    /\ IF reachesRandom(items, weights)
       THEN callRandom(num)
       ELSE UNCHANGED << rngState, rngValue, rngCalls >>
    /\ UNCHANGED << hashInput, hashSeed, rngSeed, taskVars, schedVars, pageVars >>

callSelect ==
    /\ rngState # << >>
    /\ selIndex = << >>
    /\ rngCalls < MaxDraws
    /\ LET num == MulberryOutput(nextState(rngState[1]))
       IN  \E items \in ItemLists, weights \in WeightLists :
               select(items, weights, num)

RandomNext ==
    \/ callGenerateSeed
    \/ \E seed \in { hashSeed[i] : i \in DOMAIN hashSeed } :
          createSeededRandom(seed)
    \/ random
    \/ callSelect

SpecRandom == RandomInit /\ [][RandomNext]_vars

(***************************************************************************)
(* The slot classifiers: TimeScheduler.checkNow, KBDService's              *)
(* getCurrentTimeSlot and getPreviousTimeSlot, and TimeControlModule's     *)
(* getCurrentSlotType, each asked about one instant                        *)
(***************************************************************************)

\* `${HH}:${MM}:00`: the time of day with its seconds replaced by "00"
minuteString(now) == toTimeString(now) - (toTimeString(now) % 60)

\* `${HH}:${MM}`: the time of day in whole minutes
hourMinute(now) == toTimeString(now) \div 60

\* the rows the query of getCurrentTimeSlot returns: .eq('is_active', true)
activeRows(configs) == SelectSeq(configs, LAMBDA c : c.is_active)

\* the loop of getCurrentTimeSlot, kbd.service.ts lines 297-313
RECURSIVE firstHolding(_, _, _)
firstHolding(configList, i, currentTime) ==
    IF i > Len(configList) THEN Null
    ELSE LET start == configList[i].window_start
             end   == configList[i].window_end
         IN  IF end < start
             THEN IF currentTime >= start \/ currentTime <= end
                  THEN << configList[i].slot_type >>
                  ELSE firstHolding(configList, i + 1, currentTime)
             ELSE IF currentTime >= start /\ currentTime <= end
                  THEN << configList[i].slot_type >>
                  ELSE firstHolding(configList, i + 1, currentTime)

\* KBDService.getCurrentTimeSlot for the rows `configs` of the brand
getCurrentTimeSlot(configs, now) ==
    IF Len(activeRows(configs)) = 0 THEN Null
    ELSE firstHolding(activeRows(configs), 1, minuteString(now))

\* Object.entries(TIME_WINDOWS): the windows in the order they are written
WindowEntries == << "lunch_open", "lunch_close", "dinner_open", "dinner_close" >>

\* TimeControlModule.isTimeInWindow on HH:MM strings
isTimeInWindow(time, start, end) ==
    IF start < end
    THEN time >= start /\ time < end
    ELSE time >= start \/ time < end

RECURSIVE firstWindow(_, _)
firstWindow(i, timeStr) ==
    IF i > Len(WindowEntries) THEN Null
    ELSE IF isTimeInWindow(timeStr, TIME_WINDOWS[WindowEntries[i]].start,
                           TIME_WINDOWS[WindowEntries[i]].end)
         THEN << WindowEntries[i] >>
         ELSE firstWindow(i + 1, timeStr)

\* TimeControlModule.getCurrentSlotType at the time getCurrentTime() gives
getCurrentSlotType(now) == firstWindow(1, hourMinute(now))

\* slotBoundaries of getPreviousTimeSlot
slotBoundaries ==
    [ lunch_open   |-> HMS(11, 30, 0),
      lunch_close  |-> HMS(15, 30, 0),
      dinner_open  |-> HMS(17, 30, 0),
      dinner_close |-> HMS(1, 0, 0) ]

\* KBDService.getPreviousTimeSlot: currentTime is Null for no argument
getPreviousTimeSlot(currentTime, now) ==
    LET time == IF currentTime = Null THEN minuteString(now)
                ELSE currentTime[1]
    IN  IF time < slotBoundaries.lunch_open THEN "dinner_close"
        ELSE IF time < slotBoundaries.lunch_close THEN "lunch_open"
        ELSE IF time < slotBoundaries.dinner_open THEN "lunch_close"
        ELSE IF time < slotBoundaries.dinner_close THEN "dinner_open"
        ELSE "dinner_close"

\* the starts and ends of the four windows, in seconds of the day
WindowEdges ==
    { TIME_WINDOWS[s].start * 60 : s \in SlotTypes } \cup
    { TIME_WINDOWS[s].end * 60 : s \in SlotTypes }

\* the instants the classifiers are asked about: one second before each
\* edge, the edge, and one second, half a minute, 59 seconds and a minute
\* after it; midnight, the last second of the day and midday
SampleTimes ==
    { e + d : e \in WindowEdges, d \in {-1, 0, 1, 30, 59, 60} } \cup
    { HMS(0, 0, 0), HMS(23, 59, 59), HMS(12, 0, 0) }

SlotsInit ==
    /\ pool = << >>
    /\ cache = [c \in Clients |-> {}]
    /\ calls = [k \in CallIds |-> IdleCall]
    /\ latest = 0
    /\ SchedulerLoaded
    /\ RandomUnused
    /\ sampleTime \in SampleTimes
    /\ slotBy = [c \in Classifiers |-> NotAsked]
    /\ DevUnused
    /\ AppUnused
    /\ HistoryUnused

\* TimeScheduler.checkNow with the standard rows as its configuration
callCheckNow ==
    /\ slotBy["checkNow"] = NotAsked
    /\ slotBy' = [slotBy EXCEPT
                    !["checkNow"] =
                        deriveSlot(StandardConfig, 1, toTimeString(sampleTime))]
    /\ UNCHANGED << sampleTime, devVars, appVars, historyVars, taskVars,
                    schedVars, randomVars >>

\* KBDService.getCurrentTimeSlot with the same rows in the store
callGetCurrentTimeSlot ==
    /\ slotBy["getCurrentTimeSlot"] = NotAsked
    /\ slotBy' = [slotBy EXCEPT
                    !["getCurrentTimeSlot"] =
                        getCurrentTimeSlot(StandardConfig, sampleTime)]
    /\ UNCHANGED << sampleTime, devVars, appVars, historyVars, taskVars,
                    schedVars, randomVars >>

\* TimeControlModule.getCurrentSlotType
callGetCurrentSlotType ==
    /\ slotBy["getCurrentSlotType"] = NotAsked
    /\ slotBy' = [slotBy EXCEPT
                    !["getCurrentSlotType"] = getCurrentSlotType(sampleTime)]
    /\ UNCHANGED << sampleTime, devVars, appVars, historyVars, taskVars,
                    schedVars, randomVars >>

\* KBDService.getPreviousTimeSlot(), as AppModule calls it
callGetPreviousTimeSlot ==
    /\ slotBy["getPreviousTimeSlot"] = NotAsked
    /\ slotBy' = [slotBy EXCEPT
                    !["getPreviousTimeSlot"] =
                        << getPreviousTimeSlot(Null, sampleTime) >>]
    /\ UNCHANGED << sampleTime, devVars, appVars, historyVars, taskVars,
                    schedVars, randomVars >>

SlotsNext ==
    \/ callCheckNow
    \/ callGetCurrentTimeSlot
    \/ callGetCurrentSlotType
    \/ callGetPreviousTimeSlot

SpecSlots == SlotsInit /\ [][SlotsNext]_vars

(***************************************************************************)
(* TimeControlModule: the simulated clock of the developer panel           *)
(***************************************************************************)

MaxDevSteps == 3

\* the day the sampled instants lie on, so that no adjustment leaves day 0
DevDay == (MaxDevSteps + 2) * SecondsPerDay

\* the real instants the page is loaded at
LoadTimes ==
    { DevDay + t : t \in { HMS(9, 59, 59), HMS(10, 30, 0), HMS(12, 0, 0) } }

\* the arguments of setDevTime
DevTimes ==
    { DevDay + t : t \in { HMS(10, 15, 0), HMS(11, 29, 59), HMS(12, 0, 0),
                           HMS(0, 30, 0) } }

Units == {"day", "hour", "minute", "second"}
Deltas == {-1, 1}

\* setDate, setHours, setMinutes, setSeconds with the field plus delta
adjusted(time, unit, delta) ==
    time + delta * ( CASE unit = "day"    -> SecondsPerDay
                       [] unit = "hour"   -> 60 * 60
                       [] unit = "minute" -> 60
                       [] unit = "second" -> 1 )

\* TimeControlModule.getCurrentTime
getCurrentTime == IF devTime # Null THEN devTime[1] ELSE realNow

DevInit ==
    /\ pool = << >>
    /\ cache = [c \in Clients |-> {}]
    /\ calls = [k \in CallIds |-> IdleCall]
    /\ latest = 0
    /\ SchedulerLoaded
    /\ RandomUnused
    /\ ClassifiersUnused
    /\ AppUnused
    /\ HistoryUnused
    /\ devTime = Null
    /\ tickInterval = FALSE
    /\ onTimeWindowChange = FALSE
    /\ previousSlotType = Null
    /\ realNow \in LoadTimes
    /\ devOp = "none"
    /\ devBefore = 0
    /\ devInvoked = 0
    /\ devSteps = 0

\* the observer's record of one operation of the panel
DevObserve(name) ==
    /\ devOp' = name
    /\ devBefore' = getCurrentTime
    /\ devSteps < MaxDevSteps
    /\ devSteps' = devSteps + 1

\* checkTimeWindowBoundary, on the time the operation has set
checkTimeWindowBoundary ==
    LET slotOfNow == getCurrentSlotType(getCurrentTime')
    IN  IF slotOfNow # previousSlotType
        THEN /\ previousSlotType' = slotOfNow
             /\ devInvoked' = IF onTimeWindowChange THEN 1 ELSE 0
        ELSE /\ previousSlotType' = previousSlotType
             /\ devInvoked' = 0

\* initialize: the callback is stored, the display updated, the ticking
\* started; the boundary is not checked
initialize ==
    /\ ~onTimeWindowChange
    /\ onTimeWindowChange' = TRUE
    /\ tickInterval' = TRUE
    /\ devOp' = "initialize"
    /\ devBefore' = getCurrentTime
    /\ devInvoked' = 0
    /\ UNCHANGED << devTime, previousSlotType, realNow, devSteps,
                    sampleTime, slotBy, appVars, historyVars, taskVars,
                    schedVars, randomVars >>

setDevTime(time) ==
    /\ DevObserve("setDevTime")
    /\ devTime' = << time >>
    /\ UNCHANGED realNow
    /\ checkTimeWindowBoundary
    /\ UNCHANGED << tickInterval, onTimeWindowChange,
                    sampleTime, slotBy, appVars, historyVars, taskVars,
                    schedVars, randomVars >>

\* the reset button, bound by initialize
resetTime ==
    /\ onTimeWindowChange
    /\ DevObserve("resetTime")
    /\ devTime' = Null
    /\ UNCHANGED realNow
    /\ checkTimeWindowBoundary
    /\ UNCHANGED << tickInterval, onTimeWindowChange,
                    sampleTime, slotBy, appVars, historyVars, taskVars,
                    schedVars, randomVars >>

\* a time button, bound by initialize
adjustTime(unit, delta) ==
    /\ onTimeWindowChange
    /\ DevObserve("adjustTime")
    /\ devTime' = << adjusted(getCurrentTime, unit, delta) >>
    /\ UNCHANGED realNow
    /\ checkTimeWindowBoundary
    /\ UNCHANGED << tickInterval, onTimeWindowChange,
                    sampleTime, slotBy, appVars, historyVars, taskVars,
                    schedVars, randomVars >>

\* the interval's callback, one second of real time after the last
tick ==
    /\ tickInterval
    /\ DevObserve("tick")
    /\ realNow' = realNow + 1
    /\ IF devTime # Null
       THEN /\ devTime' = << devTime[1] + 1 >>
            /\ checkTimeWindowBoundary
       ELSE /\ devTime' = devTime
            /\ UNCHANGED previousSlotType
            /\ devInvoked' = 0
    /\ UNCHANGED << tickInterval, onTimeWindowChange,
                    sampleTime, slotBy, appVars, historyVars, taskVars,
                    schedVars, randomVars >>

stopTicking ==
    /\ tickInterval
    /\ tickInterval' = FALSE
    /\ devOp' = "stopTicking"
    /\ devBefore' = getCurrentTime
    /\ devInvoked' = 0
    /\ UNCHANGED << devTime, onTimeWindowChange, previousSlotType, realNow,
                    devSteps,
                    sampleTime, slotBy, appVars, historyVars, taskVars,
                    schedVars, randomVars >>

DevNext ==
    \/ initialize
    \/ \E time \in DevTimes : setDevTime(time)
    \/ resetTime
    \/ \E unit \in Units, delta \in Deltas : adjustTime(unit, delta)
    \/ tick
    \/ stopTicking

SpecDev == DevInit /\ [][DevNext]_vars

(***************************************************************************)
(* AppModule: the handling of a slot change                                *)
(***************************************************************************)

MaxHandlers == 3

\* the runs of handleTimeWindowChange
Handlers == 1 .. MaxHandlers

\* the slots KBDService.getCurrentTimeSlot answers with in this model
AppSlots == {"lunch_open", "dinner_open"}

\* the Task getTodayTask resolves for a slot
TaskFor(slot) == [resolvedFor |-> slot]

\* a run that has not been started
IdleHandler == [pc |-> "idle", slot |-> Null]

AppInit ==
    /\ pool = << >>
    /\ cache = [c \in Clients |-> {}]
    /\ calls = [k \in CallIds |-> IdleCall]
    /\ latest = 0
    /\ SchedulerLoaded
    /\ RandomUnused
    /\ ClassifiersUnused
    /\ DevUnused
    /\ HistoryUnused
    /\ currentSlotType = Null
    /\ currentTask = Null
    /\ isInTimeWindow = FALSE
    /\ slotNow = Null
    /\ handlers = [h \in Handlers |-> IdleHandler]

\* the time of day moves into a window or out of it
slotPasses(slot) ==
    /\ slot # slotNow
    /\ slotNow' = slot
    /\ UNCHANGED << currentSlotType, currentTask, isInTimeWindow, handlers,
                    sampleTime, slotBy, devVars, historyVars, taskVars,
                    schedVars, randomVars >>

\* handleTimeWindowChange is called, by a listener of TimeScheduler or by
\* the callback of TimeControlModule, and waits in detectTimeSlot
handleTimeWindowChange(h) ==
    /\ handlers[h].pc = "idle"
    /\ \A g \in Handlers : g < h => handlers[g].pc # "idle"
    /\ handlers' = [handlers EXCEPT ![h].pc = "detectTimeSlot"]
    /\ UNCHANGED << currentSlotType, currentTask, isInTimeWindow, slotNow,
                    sampleTime, slotBy, devVars, historyVars, taskVars,
                    schedVars, randomVars >>

\* detectTimeSlot goes on after getCurrentTimeSlot: `failed` for an answer of
\* null on an error of the query, or an error of getBrandId
detectTimeSlot(h, failed) ==
    /\ handlers[h].pc = "detectTimeSlot"
    /\ LET detectedSlot == IF failed THEN Null ELSE slotNow
       IN  IF detectedSlot # Null
           THEN /\ currentSlotType' = detectedSlot
                /\ isInTimeWindow' = TRUE
           ELSE /\ currentSlotType' = currentSlotType
                /\ isInTimeWindow' = FALSE
    /\ handlers' = [handlers EXCEPT ![h].pc = "updateUIBasedOnTimeWindow"]
    /\ UNCHANGED << currentTask, slotNow,
                    sampleTime, slotBy, devVars, historyVars, taskVars,
                    schedVars, randomVars >>

\* updateUIBasedOnTimeWindow starts and waits for getRestaurantsWithStatus,
\* in display mode outside a window
updateUIBasedOnTimeWindow(h) ==
    /\ handlers[h].pc = "updateUIBasedOnTimeWindow"
    /\ handlers' = [handlers EXCEPT
                      ![h].pc = IF ~isInTimeWindow THEN "display"
                                ELSE "getRestaurantsWithStatus"]
    /\ UNCHANGED << currentSlotType, currentTask, isInTimeWindow, slotNow,
                    sampleTime, slotBy, devVars, historyVars, taskVars,
                    schedVars, randomVars >>

\* getRestaurantsWithStatus answers: outside a window the run ends; inside,
\* loadCurrentTask calls getTodayTask with the slot stored at this moment;
\* if it threw the run ends there
getRestaurantsWithStatus(h, threw) ==
    /\ handlers[h].pc \in {"display", "getRestaurantsWithStatus"}
    /\ handlers' = [handlers EXCEPT
                      ![h] = IF threw \/ handlers[h].pc = "display"
                             THEN [pc |-> "done", slot |-> Null]
                             ELSE [pc |-> "getTodayTask",
                                   slot |-> currentSlotType]]
    /\ UNCHANGED << currentSlotType, currentTask, isInTimeWindow, slotNow,
                    sampleTime, slotBy, devVars, historyVars, taskVars,
                    schedVars, randomVars >>

\* loadCurrentTask goes on after getTodayTask: a Task or null is stored, an
\* error is caught and nothing stored
loadCurrentTask(h, outcome) ==
    /\ handlers[h].pc = "getTodayTask"
    /\ currentTask' =
          CASE outcome = "task"  -> << TaskFor(handlers[h].slot[1]) >>
            [] outcome = "null"  -> Null
            [] outcome = "throw" -> currentTask
    /\ handlers' = [handlers EXCEPT ![h] = [pc |-> "done", slot |-> Null]]
    /\ UNCHANGED << currentSlotType, isInTimeWindow, slotNow,
                    sampleTime, slotBy, devVars, historyVars, taskVars,
                    schedVars, randomVars >>

AppNext ==
    \/ \E slot \in { << s >> : s \in AppSlots } \cup { Null } :
          slotPasses(slot)
    \/ \E h \in Handlers : handleTimeWindowChange(h)
    \/ \E h \in Handlers, failed \in BOOLEAN : detectTimeSlot(h, failed)
    \/ \E h \in Handlers : updateUIBasedOnTimeWindow(h)
    \/ \E h \in Handlers, threw \in BOOLEAN : getRestaurantsWithStatus(h, threw)
    \/ \E h \in Handlers, outcome \in {"task", "null", "throw"} :
          loadCurrentTask(h, outcome)

SpecApp == AppInit /\ [][AppNext]_vars

(***************************************************************************)
(* KBDService: submitting a check-in and reading the history               *)
(***************************************************************************)

MaxRecords == 12

\* the restaurant whose history is read
HistoryRestaurants == {"r1"}

\* the limits and offsets getCheckInHistory is called with: the page of
\* MapModule.loadMoreHistory and a shorter one
Limits == {3, 10}
Offsets == {0, 3, 10}

\* the rows of a restaurant that holds n records, newest first: record k is
\* the k-th inserted
newestFirst(n) == [i \in 1 .. n |-> n - i + 1]

\* records.slice(0, k)
slice(records, k) ==
    SubSeq(records, 1, IF Len(records) < k THEN Len(records) ELSE k)

\* .order('check_in_at', { ascending: false }).range(from, to): the rows at
\* the indexes from .. to, counted from 0, both included
range(rows, from, to) ==
    SubSeq(rows, from + 1, IF Len(rows) < to + 1 THEN Len(rows) ELSE to + 1)

\* no entry in the check_in_records store
NoCachedRecords == [records |-> << >>, task |-> FALSE]

\* CacheService.setCheckInRecords: at most 10 records are kept; `task` says
\* whether the records carry their task
setCheckInRecords(records, task) ==
    [records |-> slice(records, 10), task |-> task]

\* no call observed yet
NoHistoryCall ==
    [ name |-> "none", restaurantId |-> "", limit |-> 0, offset |-> 0,
      path |-> "", records |-> << >>, hasMore |-> FALSE, awaited |-> Null ]

HistoryInit ==
    /\ pool = << >>
    /\ cache = [c \in Clients |-> {}]
    /\ calls = [k \in CallIds |-> IdleCall]
    /\ latest = 0
    /\ SchedulerLoaded
    /\ RandomUnused
    /\ ClassifiersUnused
    /\ DevUnused
    /\ AppUnused
    /\ checkIns = [r \in HistoryRestaurants |-> 0]
    /\ checkInCache = [r \in HistoryRestaurants |-> NoCachedRecords]
    /\ submitted = [r \in HistoryRestaurants |-> Null]
    /\ historyCall = NoHistoryCall

\* KBDService.submitCheckIn: the insert succeeds and the record is
\* returned, or it fails and { success: false } is
submitCheckIn(r, success) ==
    /\ checkIns[r] < MaxRecords
    /\ checkIns' =
          IF success THEN [checkIns EXCEPT ![r] = checkIns[r] + 1]
          ELSE checkIns
    /\ submitted' =
          IF success THEN [submitted EXCEPT ![r] = << checkIns[r] + 1 >>]
          ELSE submitted
    /\ historyCall' =
          [NoHistoryCall EXCEPT
             !.name = "submitCheckIn", !.restaurantId = r,
             !.path = IF success THEN "success" ELSE "error"]
    /\ UNCHANGED << checkInCache,
                    sampleTime, slotBy, devVars, appVars, taskVars,
                    schedVars, randomVars >>

\* what getCheckInHistory returns from the cached records
fromCache(r, limit) ==
    [ records |-> slice(checkInCache[r].records, limit),
      hasMore |-> Len(checkInCache[r].records) > limit ]

\* what getCheckInHistory returns from the rows the store answers with
fromStore(r, limit, offset) ==
    LET recordList == range(newestFirst(checkIns[r]), offset, offset + limit)
        hasMore    == Len(recordList) > limit
    IN  [ records |-> IF hasMore THEN slice(recordList, limit)
                      ELSE recordList,
          hasMore |-> hasMore ]

\* KBDService.getCheckInHistory; `found` says whether the lookup of the
\* tasks gave the task of the first record, `failed` whether the query of
\* the records answered with an error
getCheckInHistory(r, limit, offset, found, failed) ==
    LET cached == offset = 0 /\ limit <= 10
                  /\ Len(checkInCache[r].records) > 0
        result == IF cached THEN fromCache(r, limit)
                  ELSE fromStore(r, limit, offset)
        observed ==
            [ name |-> "getCheckInHistory", restaurantId |-> r,
              limit |-> limit, offset |-> offset,
              path |-> IF cached THEN "cache"
                       ELSE IF failed THEN "error" ELSE "store",
              records |-> IF ~cached /\ failed THEN << >>
                          ELSE result.records,
              hasMore |-> IF ~cached /\ failed THEN FALSE
                          ELSE result.hasMore,
              awaited |-> submitted[r] ]
    IN  /\ cached => ~failed
        /\ cached /\ checkInCache[r].task => found
        /\ checkInCache' =
              IF cached
              THEN IF checkInCache[r].task THEN checkInCache
                   ELSE [checkInCache EXCEPT
                           ![r] = setCheckInRecords(result.records, found)]
              ELSE IF ~failed /\ offset = 0 /\ Len(result.records) > 0
              THEN [checkInCache EXCEPT
                      ![r] = setCheckInRecords(result.records, found)]
              ELSE checkInCache
        /\ submitted' =
              IF limit = 10 /\ offset = 0
              THEN [submitted EXCEPT ![r] = Null]
              ELSE submitted
        /\ historyCall' = observed
        /\ UNCHANGED << checkIns,
                        sampleTime, slotBy, devVars, appVars, taskVars,
                        schedVars, randomVars >>

HistoryNext ==
    \/ \E r \in HistoryRestaurants, success \in BOOLEAN :
          submitCheckIn(r, success)
    \/ \E r \in HistoryRestaurants, limit \in Limits, offset \in Offsets,
          found \in BOOLEAN, failed \in BOOLEAN :
          getCheckInHistory(r, limit, offset, found, failed)

SpecHistory == HistoryInit /\ [][HistoryNext]_vars

(***************************************************************************)
(* Claims about the resolver                                               *)
(***************************************************************************)
Done(k) == calls[k].pc = "done"

\* a call that went through the tiers, against a store unchanged since
Miss(k) == Done(k) /\ ~calls[k].hit /\ ~calls[k].changed

IsTask(call) == call.result.kind = "task"

\* the rows of the store that are announced ad-hoc tasks for the call's
\* (date, slot) and in the scope of its restaurant
AdhocMatches(call) ==
    { i \in 1..Len(pool) :
        /\ ~pool[i].is_routine /\ pool[i].is_announced /\ pool[i].is_active
        /\ pool[i].execute_date = call.today
        /\ pool[i].execute_slot = <<call.slotType>>
        /\ adhocInScope(pool[i], call.brandId, call.restaurantId) }

StoreLevel(t) == t.restaurant_id # Null
BrandLevel(t) == t.restaurant_id = Null /\ t.brand_id # Null
GlobalLevel(t) == t.restaurant_id = Null /\ t.brand_id = Null

\* C1: two clients with empty caches that see the same store, resolving the
\* same restaurant and slot at instants with the same date string, get the
\* same task.
C1_SameTaskOnEveryClient ==
    \A j, k \in CallIds :
        ( /\ Miss(j) /\ Miss(k)
          /\ calls[j].cacheEmpty /\ calls[k].cacheEmpty
          /\ calls[j].client # calls[k].client
          /\ calls[j].restaurantId = calls[k].restaurantId
          /\ calls[j].slotType = calls[k].slotType
          /\ calls[j].today = calls[k].today )
        => calls[j].result = calls[k].result

\* C2: on a cache miss with every query answered, the ad-hoc task returned is
\* the restaurant-specific match if there is one, else the brand-level one,
\* else the global one, for every order of the rows.
C2_AdhocScopePriority ==
    \A k \in CallIds :
        (Miss(k) /\ ~calls[k].failed /\ AdhocMatches(calls[k]) # {}) =>
            LET call == calls[k]
                m == { pool[i] : i \in AdhocMatches(call) }
            IN  /\ IsTask(call)
                /\ call.result.task[1].id \in { t.id : t \in m }
                /\ (\E t \in m : StoreLevel(t))
                      => StoreLevel(call.result.task[1])
                /\ (\E t \in m : BrandLevel(t))
                      => ~GlobalLevel(call.result.task[1])

\* C3: a call during which a kbd_task_pool query failed ends with an error and
\* has written nothing to the daily-task cache.
C3_QueryFailureIsError ==
    \A k \in CallIds :
        (Done(k) /\ calls[k].failed) =>
            /\ calls[k].result.kind = "error"
            /\ ~calls[k].wrote

\* C8: a call that returns while the store holds an announced ad-hoc task for
\* its date and slot in the restaurant's scope returns an ad-hoc task (here
\* for a call started after the store was last updated, on a client that has
\* resolved for no other restaurant).
C8_AdhocOverridesWheneverPresent ==
    \A k \in CallIds :
        ( /\ Done(k) /\ ~calls[k].changed /\ calls[k].adhocAtReturn
          /\ \A j \in CallIds : calls[j].pc # "idle" =>
                /\ calls[j].restaurantId = calls[k].restaurantId
                /\ calls[j].client = calls[k].client ) =>
            /\ IsTask(calls[k])
            /\ ~calls[k].result.task[1].is_routine

\* the occurrence of the call's window that holds the call's local instant:
\* the local day the occurrence started on, Null outside the window
Occurrence(call) ==
    LET local  == call.now + TimeZone(call.client)
        day    == FloorDiv(local, MinutesPerDay)
        minute == local - day * MinutesPerDay
        window == TIME_WINDOWS[call.slotType]
    IN  IF window.start <= window.end
        THEN IF minute >= window.start /\ minute < window.end
             THEN << day >> ELSE Null
        ELSE IF minute >= window.start THEN << day >>
        ELSE IF minute < window.end THEN << day - 1 >>
        ELSE Null

\* C9: two calls of one client for the same restaurant and slot, made inside
\* the same occurrence of the slot's window with the store unchanged, resolve
\* under the same date key and return the same task.
C9_OneTaskPerWindowOccurrence ==
    \A j, k \in CallIds :
        ( /\ Done(j) /\ Done(k)
          /\ ~calls[j].changed /\ ~calls[k].changed
          /\ calls[j].client = calls[k].client
          /\ calls[j].restaurantId = calls[k].restaurantId
          /\ calls[j].slotType = calls[k].slotType
          /\ Occurrence(calls[j]) # Null
          /\ Occurrence(calls[j]) = Occurrence(calls[k]) ) =>
            /\ calls[j].today = calls[k].today
            /\ calls[j].result = calls[k].result

\* the weekday of the calendar date the call resolves (its date string)
dateWeekday(call) == getDay(call.now, 0)

\* the fixed routine rows pinned to the call's (date, slot), in brand scope
FixedMatches(call) ==
    { i \in 1..Len(pool) :
        /\ pool[i].is_routine /\ pool[i].is_active
        /\ dateWeekday(call) \in pool[i].fixed_weekdays
        /\ call.slotType \in pool[i].fixed_slots
        /\ brandInScope(pool[i], call.brandId) }

\* C10: on a cache miss an ad-hoc task is returned whenever an in-scope ad-hoc
\* task matches (date, slot); the fixed tier answers only if none does, the
\* weighted tier only if neither an ad-hoc nor a fixed routine task matches.
C10_TierCascade ==
    \A k \in CallIds :
        (Miss(k) /\ calls[k].result.kind # "error") =>
            /\ AdhocMatches(calls[k]) # {} => calls[k].tier = "adhoc"
            /\ calls[k].tier = "fixed" => AdhocMatches(calls[k]) = {}
            /\ calls[k].tier = "routine" =>
                  AdhocMatches(calls[k]) = {} /\ FixedMatches(calls[k]) = {}

\* What the cascade does do: with every query answered, and the fixed tier
\* asked for the client's local weekday, the tiers answer in order.
CascadeAsCoded ==
    \A k \in CallIds :
        (Miss(k) /\ ~calls[k].failed) =>
            LET call  == calls[k]
                fixed == findFixed(fixedQuery(pool, call.weekday,
                                              call.slotType), call.brandId)
            IN  /\ AdhocMatches(call) # {} <=> call.tier = "adhoc"
                /\ call.tier = "fixed" <=>
                      (AdhocMatches(call) = {} /\ fixed # Null)
                /\ call.tier = "routine" =>
                      (AdhocMatches(call) = {} /\ fixed = Null)

(***************************************************************************)
(* Claims about the scheduler                                              *)
(***************************************************************************)
initialised == visibilityListeners > 0

\* no pending timeout has reached its due time
NoTimerDue == \A t \in dueTimes : t > clock

\* C4: once init has run and every timeout due has fired, the stored slot
\* is the slot of the window that holds the wall clock, and null outside
\* all windows.
C4_StateTracksClock ==
    (initialised /\ ~stopped /\ NoTimerDue) =>
        currentSlot = newSlotAt(slotConfig, clock)

\* C5: every onSlotChange call reports a window the wall clock is in and
\* has just entered: the new slot is the clock's slot and differs from the
\* previous slot it is called with.
C5_OneCallPerCrossing ==
    \A i \in 1..Len(slotCalls) :
        /\ slotCalls[i].newSlot = newSlotAt(slotConfig, clock)
        /\ slotCalls[i].newSlot # slotCalls[i].previousSlot

\* the part of C5 about the slots a call is made with
NeverSameSlot ==
    \A i \in 1..Len(slotCalls) :
        slotCalls[i].newSlot # slotCalls[i].previousSlot

C7_StopIsTerminal ==
    stopped =>
        /\ mainTimer = Null
        /\ preloadTimer = Null
        /\ slotCalls = << >>
        /\ preloadCalls = << >>

(***************************************************************************)
(* Claims about the cache, the tiers and seeded-random                     *)
(***************************************************************************)
\* a call that went through the tiers and returned a task
ResolvedOnMiss(j) == Done(j) /\ ~calls[j].hit /\ IsTask(calls[j])

\* call k was started after call j returned, on the same client and for
\* the same (date, brand, slot)
LaterSameKey(j, k) ==
    /\ j < k
    /\ calls[k].pc # "idle"
    /\ calls[k].client = calls[j].client
    /\ calls[k].today = calls[j].today
    /\ calls[k].brandId = calls[j].brandId
    /\ calls[k].slotType = calls[j].slotType

C12_WeekdayOfResolvedDate ==
    \A k \in CallIds :
        calls[k].queries >= 2 => calls[k].weekday = dateWeekday(calls[k])

\* a routine task pinned to weekdays and slots
IsFixed(t) == t.is_routine /\ t.fixed_weekdays # {}

\* C13: a pinned routine task is returned only for a date whose weekday is
\* in its fixed_weekdays and a slot in its fixed_slots (here for calls whose
\* queries were all answered and whose local weekday is the date's weekday).
C13_FixedOnlyWherePinned ==
    \A k \in CallIds :
        ( /\ Done(k) /\ IsTask(calls[k]) /\ ~calls[k].failed
          /\ calls[k].weekday = dateWeekday(calls[k])
          /\ IsFixed(calls[k].result.task[1]) ) =>
            /\ dateWeekday(calls[k]) \in calls[k].result.task[1].fixed_weekdays
            /\ calls[k].slotType \in calls[k].result.task[1].fixed_slots

\* C14: a call never returns a task of another restaurant: the returned
\* task's restaurant_id is null or the restaurant the call was made for.
C14_NoRestaurantLeak ==
    \A k \in CallIds :
        (Done(k) /\ IsTask(calls[k])) =>
            \/ calls[k].result.task[1].restaurant_id = Null
            \/ calls[k].result.task[1].restaurant_id
                 = << calls[k].restaurantId >>

(***************************************************************************)
(* Claims about seeded-random                                              *)
(***************************************************************************)
IsU32(x) == x[1] \in 0 .. Limb - 1 /\ x[2] \in 0 .. Limb - 1

hashKey == KeyString(hashInput[1].date, hashInput[1].brandId, hashInput[1].slotType)

RECURSIVE ReferenceDjb2(_, _)
\* hash_0 = 5381, hash_i = (hash_(i-1) * 33 + c_i) mod 2^32, on unsigned
\* 32-bit values throughout
ReferenceDjb2(chars, n) ==
    IF n = 0 THEN U32(5381)
    ELSE LET h == ReferenceDjb2(chars, n - 1)
         IN  IF h[1] < 0 THEN h
             ELSE Add32(Imul(h, U32(33)), U32(CharCode[chars[n]]))

\* C15: the seed generateSeed returns for a date, a brand id and a slot is
\* the reference djb2 fold over the characters of "{date}_{brandId}_{slot}",
\* an integer in [0, 2^32); the signed intermediates do not change it.
C15_SeedIsReferenceDjb2 ==
    (hashInput # << >> /\ hashSeed # << >>) =>
        /\ hashSeed[1] = ReferenceDjb2(hashKey, Len(hashKey))
        /\ IsU32(hashSeed[1])

\* a seed has been computed through a negative intermediate hash, and the
\* brand id takes two digits
C15_Witness ==
    /\ hashInput # << >>
    /\ hashSeed # << >>
    /\ hashInput[1].brandId >= 10
    /\ \E n \in 1 .. Len(hashKey) : Djb2(hashKey, n)[2] < 0
    /\ Djb2(hashKey, Len(hashKey))[2] < 0

RECURSIVE ReferenceState(_, _)
\* (seed + n * 0x6D2B79F5) mod 2^32
ReferenceState(seed, n) ==
    IF n = 0 THEN seed
    ELSE LET prev == ReferenceState(seed, n - 1)
         IN  IF prev[1] < 0 THEN prev ELSE Add32(prev, MulberryStep)

\* C16: after n calls of a generator made by createSeededRandom(seed) the
\* stored state is (seed + n * 0x6D2B79F5) mod 2^32, a value in [0, 2^32).
C16_StateStaysU32 ==
    rngState # << >> =>
        /\ rngState[1] = ReferenceState(rngSeed[1], rngCalls)
        /\ IsU32(rngState[1])

\* t = (t ^ t>>>15) * (t|1); t = t ^ (t + (t ^ t>>>7) * (t|61)); t ^ t>>>14
\* on unsigned 32-bit values with wrapping sums and products
ReferenceOutput(state) ==
    LET t1 == Imul(Xor32(state, Shr32(state, 15)), OrSmall32(state, 1))
        t2 == Xor32(t1, Add32(t1, Imul(Xor32(t1, Shr32(t1, 7)),
                                       OrSmall32(t1, 61))))
    IN  Xor32(t2, Shr32(t2, 14))

\* C17: the n-th value a generator made by createSeededRandom(seed) returns
\* has as numerator the u32 of the reference steps on wrapping unsigned
\* 32-bit values, a value in [0, 2^32 - 1], for n up to MaxDraws.
C17_OutputBitExact ==
    rngValue # << >> =>
        /\ rngValue[1] = ReferenceOutput(ReferenceState(rngSeed[1], rngCalls))
        /\ IsU32(rngValue[1])

\* a second or later value has been returned, from a stored state past 2^32
\* and through a negative t
C17_Witness ==
    /\ rngValue # << >>
    /\ rngCalls >= 2
    /\ rngState[1][2] >= Limb
    /\ ToInt32(rngState[1])[2] < 0

\* weightedRandomSelect has returned for items and weights of one length, as
\* a list of (item, weight) pairs gives them
SelectedFromPairs == selIndex # << >> /\ Len(selItems) = Len(selWeights)

\* the cumulative weight of the first i items
Cumulative(ws, i) == SumWeights(SubSeq(ws, 1, i))

\* the list positions whose cumulative weight exceeds r
Exceeding(ws, r) == { i \in 1 .. Len(ws) : Cumulative(ws, i) > r }

Least(S) == CHOOSE i \in S : \A j \in S : i <= j

\* C18: weightedRandomSelect returns no selection when the list is empty or
\* the weights sum to 0 or less; otherwise it returns the first position whose
\* cumulative weight exceeds r = random() * total, and the last position when
\* none does.  (Positions count from 1 here, 0 is no selection.)
C18_SelectResult ==
    SelectedFromPairs =>
        LET total == SumWeights(selWeights)
        IN  IF Len(selItems) = 0 \/ total <= 0
            THEN selIndex[1] = 0
            ELSE LET above == Exceeding(selWeights,
                                        ScaledFloor(rngValue[1], total))
                 IN  /\ selIndex[1] \in 1 .. Len(selItems)
                     /\ above # {} => selIndex[1] = Least(above)
                     /\ above = {} => selIndex[1] = Len(selItems)

\* a selection past the first item whose cumulative weight, a negative one,
\* did not exceed r
C18_Witness ==
    /\ SelectedFromPairs
    /\ selIndex[1] >= 2
    /\ selWeights[1] < 0

\* C19: for non-negative integer weights of positive total, as r ranges over
\* 0 .. total - 1 the item at position i is picked for exactly weight_i values
\* of r, and the item picked never has weight 0.
C19_ProportionalToWeight ==
    (/\ SelectedFromPairs
     /\ \A i \in DOMAIN selWeights : selWeights[i] >= 0
     /\ SumWeights(selWeights) > 0) =>
        /\ \A i \in DOMAIN selWeights :
              Cardinality({ r \in 0 .. SumWeights(selWeights) - 1 :
                              WalkWeights(selWeights, 1, 0, r) = i })
                  = selWeights[i]
        /\ selWeights[selIndex[1]] > 0

\* the third of the weights 1, 1, 2 has been picked
C19_Witness ==
    /\ SelectedFromPairs
    /\ selWeights = << 1, 1, 2 >>
    /\ selIndex = << 3 >>

(***************************************************************************)
(* Claims about the weights of the weighted-random tier                    *)
(***************************************************************************)
\* the weight a candidate takes part with: 100 when absent, else its own
statedWeight(w) == IF w = Null THEN 100 ELSE w[1]

\* the candidates of a call's weighted tier, in the order of the store
Candidates(call) ==
    LET InScope(t) == brandInScope(t, call.brandId)
    IN  SelectSeq(routineQuery(pool, call.slotType), InScope)

\* the position selected among the candidates with their stated weights
StatedSelection(call) ==
    LET cands == Candidates(call)
    IN  weightedRandomSelect(cands,
            [i \in 1 .. Len(cands) |-> statedWeight(cands[i].weight)],
            FirstRandom(generateSeed(call.today, call.brandId, call.slotType)))

\* C20: in the weighted-random tier 100 stands in only for an absent weight;
\* a candidate with an explicit weight w, 0 included, takes part with weight
\* w, so the tier returns what the selection over those weights gives.
C20_DefaultOnlyWhenAbsent ==
    \A k \in CallIds :
        (Done(k) /\ ~calls[k].hit /\ ~calls[k].failed
                 /\ calls[k].tier = "routine") =>
            /\ StatedSelection(calls[k]) # 0
            /\ Candidates(calls[k])[StatedSelection(calls[k])].id
                   = calls[k].result.task[1].id

(***************************************************************************)
(* Claims about the scheduler's windows, timers and listeners              *)
(***************************************************************************)
\* a window holds a time of day t: one with window_end < window_start iff
\* t >= start or t <= end, any other iff start <= t <= end
Contains(c, t) ==
    IF c.window_end < c.window_start
    THEN t >= c.window_start \/ t <= c.window_end
    ELSE c.window_start <= t /\ t <= c.window_end

\* the slot of the first active row, in configured order, whose window holds t
SlotOfWindow(config, t) ==
    LET holding == { i \in 1 .. Len(config) :
                       config[i].is_active /\ Contains(config[i], t) }
    IN  IF holding = {} THEN Null
        ELSE << config[Least(holding)].slot_type >>

Pending(pending, kind) ==
    { pending[i] : i \in { j \in DOMAIN pending : pending[j].kind = kind } }

\* the operations at the end of which scheduleNext has run
Arming(o) ==
    o \in {"init", "mainTimer"} \/ (o = "visible" /\ visibilityListeners > 0)

\* what a step does about preloads, if the preload rule holds
PreloadRuleStep ==
    /\ Arming(op') =>
          /\ Pending(timeouts', "preload") # {} <=>
                \E m \in Pending(timeouts', "main") :
                    m.due - clock' > PreloadLead
          /\ \A t \in Pending(timeouts', "preload") :
                \E m \in Pending(timeouts', "main") :
                    t.due = m.due - PreloadLead /\ t.slot = m.slot
    /\ ~Arming(op') =>
          Pending(timeouts', "preload") \subseteq Pending(timeouts, "preload")
    /\ preloadCalls' # << >> =>
          \E t \in Pending(timeouts, "preload") :
              /\ t \notin Pending(timeouts', "preload")
              /\ t.due <= clock
              /\ \A i \in DOMAIN preloadCalls' :
                    preloadCalls'[i].upcomingSlot = t.slot

\* C22: each time the scheduler arms timers it arms a preload timer iff more
\* than 5 minutes remain until the next transition, due 5 minutes before it;
\* a preload timer becomes pending in no other way, and preload listeners
\* are invoked only by a pending preload timer that is due, so that no
\* preload is announced for a transition armed with 5 minutes or less to go.
C22_PreloadRule == [][PreloadRuleStep]_vars

\* timers were armed with less than 5 minutes to the next transition, and
\* no preload timer is pending
C22_Witness ==
    /\ op = "init"
    /\ \E m \in Pending(timeouts, "main") :
          m.due - clock < PreloadLead /\ m.due - clock > 0
    /\ Pending(timeouts, "preload") = {}
    /\ preloadCallbacks # << >>

\* how many timeouts of one kind the host holds
Count(pending, kind) ==
    Cardinality({ i \in DOMAIN pending : pending[i].kind = kind })

\* C23: whatever sequence of init (also repeated), resume signals, timer
\* fires, checkNow and stop has run, at most one transition timeout and at
\* most one preload timeout are pending.
C23_AtMostTwoTimers ==
    /\ Count(timeouts, "main") <= 1
    /\ Count(timeouts, "preload") <= 1

\* after a second init and a resume handled by both visibilitychange
\* handlers, one timeout of each kind is pending
C23_Witness ==
    /\ visibilityListeners = 2
    /\ op = "visible"
    /\ Count(timeouts, "main") = 1
    /\ Count(timeouts, "preload") = 1

\* midnight of the day of an instant
StartOfDay(now) == now - (now % SecondsPerDay)

\* the rows of S with the smallest window_start
Earliest(config, S) ==
    { i \in S : \A j \in S : config[i].window_start <= config[j].window_start }

\* the next boundary as stated: the active rows with the smallest
\* window_start later than the time of day, starting today; if no active
\* row starts later today, those with the smallest window_start, tomorrow
NextBoundary(config, now) ==
    LET active == { i \in DOMAIN config : config[i].is_active }
        later  == { i \in active :
                      config[i].window_start > toTimeString(now) }
    IN  IF later # {}
        THEN { [slot |-> config[i].slot_type,
                startsAt |-> StartOfDay(now) + config[i].window_start] :
                  i \in Earliest(config, later) }
        ELSE { [slot |-> config[i].slot_type,
                startsAt |-> StartOfDay(now) + SecondsPerDay
                                + config[i].window_start] :
                  i \in Earliest(config, active) }

\* C24: getNextSlotInfo returns the active config with the smallest
\* window_start later than the current time of day, starting today, else
\* the active config with the smallest window_start, starting tomorrow;
\* never an inactive config, and always an instant in the future.  Read
\* off the transition timer scheduleNext sets from what it returns.
C24_NextBoundary ==
    Arming(op) =>
        IF NextBoundary(slotConfig, clock) = {}
        THEN mainTimer = Null
        ELSE /\ mainTimer # Null
             /\ [slot |-> mainTimer[1].slot, startsAt |-> mainTimer[1].due]
                    \in NextBoundary(slotConfig, clock)
             /\ mainTimer[1].due > clock
             /\ \E i \in DOMAIN slotConfig :
                    /\ slotConfig[i].is_active
                    /\ slotConfig[i].slot_type = mainTimer[1].slot

\* with an inactive row listed first and the only active window begun, the
\* next boundary is that window's start tomorrow
C24_Witness ==
    /\ op = "mainTimer"
    /\ slotConfig = LunchOnlyConfig
    /\ mainTimer # Null
    /\ mainTimer[1].slot = "lunch_open"
    /\ mainTimer[1].due = StartOfDay(clock) + SecondsPerDay + HMS(10, 0, 0)

\* what the transition timeout's callback leaves: the slot stored, every
\* listener called with (new, previous), and a transition timeout pending
\* for a later window start
ChainStep ==
    op = "mainTimer" =>
        /\ currentSlot # Null
        /\ slotCalls = notify(slotChangeCallbacks, currentSlot, before)
        /\ mainTimer # Null
        /\ mainTimer[1].due > clock
        /\ Count(timeouts, "main") = 1
        /\ \E i \in DOMAIN slotConfig :
              /\ slotConfig[i].is_active
              /\ slotConfig[i].slot_type = mainTimer[1].slot
              /\ slotConfig[i].window_start = toTimeString(mainTimer[1].due)

\* time has run on to the start of slot's window, init having run before
\* and stop not since
WindowStarts(slot) ==
    /\ op = "advance"
    /\ initialised
    /\ ~stopped
    /\ \E i \in DOMAIN slotConfig :
          /\ slotConfig[i].is_active
          /\ slotConfig[i].slot_type = slot
          /\ slotConfig[i].window_start = toTimeString(clock)

\* the transition timeout's callback has stored slot and called every
\* listener with it
Announced(slot) ==
    /\ op = "mainTimer"
    /\ currentSlot = << slot >>
    /\ slotCalls = notify(slotChangeCallbacks, << slot >>, before)

\* C25: after init with an active config and until stop, every firing of the
\* transition timer stores the new slot, calls the onSlotChange listeners
\* with (new, previous) and leaves a transition timer pending for a later
\* window start; so, timers firing when due, every later window start is
\* followed by an onSlotChange naming that window's slot.
C25_SelfChaining ==
    /\ []ChainStep
    /\ \A slot \in SlotTypes : WindowStarts(slot) ~> Announced(slot)

\* the callback has run at the second start of a window since init, with
\* both listeners called and the chain's next timeout pending
C25_Witness ==
    /\ op = "mainTimer"
    /\ clock >= SecondsPerDay + HMS(10, 0, 0)
    /\ currentSlot = << "lunch_open" >>
    /\ before = << "lunch_open" >>
    /\ Len(slotCalls) = 2
    /\ mainTimer # Null

\* the window starts of the active rows, today and tomorrow, later than now
FutureStarts(config, now) ==
    { t \in { StartOfDay(now) + d * SecondsPerDay + config[i].window_start :
                i \in { k \in DOMAIN config : config[k].is_active },
                d \in {0, 1} } : t > now }

\* C26: once a change to visible has been handled, after a suspension of any
\* length in which no timer fired, the stored slot is the slot derived from
\* the wall clock at that moment and the pending transition timer is due at
\* the nearest future window start.
C26_ResyncOnResume ==
    (op = "visible" /\ visibilityListeners > 0) =>
        /\ currentSlot = SlotOfWindow(slotConfig, toTimeString(clock))
        /\ { m.due : m \in Pending(timeouts, "main") }
              = IF FutureStarts(slotConfig, clock) = {} THEN {}
                ELSE { Least(FutureStarts(slotConfig, clock)) }
        /\ \A m \in Pending(timeouts, "preload") : m.due > clock

\* resumed in the night window of the next day, the lunch window having been
\* the stored slot when the page was suspended: the lunch window's end and
\* two window starts passed with no timer fired
C26_Witness ==
    /\ op = "visible"
    /\ visibilityListeners > 0
    /\ slotConfig = StandardConfig
    /\ before = << "lunch_open" >>
    /\ currentSlot = << "dinner_close" >>
    /\ clock = SecondsPerDay + HMS(0, 30, 0)
    /\ \E m \in Pending(timeouts, "main") :
          m.due = SecondsPerDay + HMS(10, 0, 0)

\* the listeners of a sequence of calls, in the order they were called
Called(made) == [k \in DOMAIN made |-> made[k].cb]

\* C27: whenever onSlotChange or preload listeners are invoked they run in
\* registration order, and a listener that throws does not keep the ones
\* registered after it from running, nor the scheduler from arming its next
\* timer, nor does it undo the update of the stored slot.
C27_ListenerIsolation ==
    /\ slotCalls # << >> =>
          /\ Called(slotCalls) = slotChangeCallbacks
          /\ \A k \in DOMAIN slotCalls :
                /\ slotCalls[k].newSlot = currentSlot
                /\ slotCalls[k].previousSlot = before
          /\ (Arming(op) /\ FutureStarts(slotConfig, clock) # {}) =>
                \E m \in Pending(timeouts, "main") :
                    m.due = Least(FutureStarts(slotConfig, clock))
    /\ preloadCalls # << >> => Called(preloadCalls) = preloadCallbacks
    /\ \A slot \in SlotTypes :
          /\ Called(notifyPreload(<< "p", "q" >>, slot)) = << "p", "q" >>
          /\ Called(notifyPreload(<< "q", "p" >>, slot)) = << "q", "p" >>

\* the transition timer's callback has called a listener that threw, then
\* the listener registered after it, and the next timer is armed
C27_Witness ==
    /\ op = "mainTimer"
    /\ slotChangeCallbacks = << "a", "b" >>
    /\ Len(slotCalls) = 2
    /\ slotCalls[1].threw
    /\ slotCalls[2].cb = "b"
    /\ ~slotCalls[2].threw
    /\ currentSlot = slotCalls[2].newSlot
    /\ Pending(timeouts, "main") # {}

\* no row of the list is active: the list is empty or all its rows are off
NoActiveConfig(config) == \A i \in DOMAIN config : ~config[i].is_active

\* C28: after init with an empty config list, or one with no active config,
\* the scheduler has no pending timer and no slot, and stays so, also across
\* changes to visible, until init is called with a valid config; an init
\* with an empty list after a valid one cancels the timers armed before.
C28_InvalidConfigParks ==
    NoActiveConfig(slotConfig) =>
        /\ timeouts = << >>
        /\ currentSlot = Null
        /\ slotCalls = << >>
        /\ preloadCalls = << >>

\* init with the empty list in a window of the valid list set before, whose
\* timers are cancelled and whose slot is dropped
C28_Witness ==
    /\ op = "init"
    /\ slotConfig = << >>
    /\ visibilityListeners = 2
    /\ before = << "lunch_open" >>
    /\ currentSlot = Null
    /\ timeouts = << >>

(***************************************************************************)
(* Claims about the resolver's outcomes                                    *)
(***************************************************************************)
\* the store holds no row that a tier of the call could take: no announced
\* ad-hoc row of the call's date and slot in the restaurant's scope, and no
\* routine row of the brand's scope pinned to the call's weekday and slot or
\* applicable to its slot
NoCandidate(call) ==
    \A i \in DOMAIN pool :
        LET t == pool[i]
            brand == t.brand_id = Null \/ t.brand_id = << call.brandId >>
        IN  /\ ~( /\ ~t.is_routine /\ t.is_announced /\ t.is_active
                  /\ t.execute_date = call.today
                  /\ t.execute_slot = << call.slotType >>
                  /\ brand
                  /\ \/ t.restaurant_id = Null
                     \/ t.restaurant_id = << call.restaurantId >> )
            /\ ~( /\ t.is_routine /\ t.is_active /\ brand
                  /\ \/ call.slotType \in t.applicable_slots
                     \/ /\ call.weekday \in t.fixed_weekdays
                        /\ call.slotType \in t.fixed_slots )

\* call k has returned after a cache miss, every query answered, over a
\* store that has held no candidate since the call began
FoundNothing(k) ==
    /\ calls[k].pc = "done"
    /\ ~calls[k].hit
    /\ ~calls[k].failed
    /\ ~calls[k].changed
    /\ NoCandidate(calls[k])

\* C29: when no tier yields a candidate, getTodayTask returns null without
\* raising an error and leaves the daily-task cache as it was: no entry is
\* written for the key, so a later call for the key resolves afresh.
C29_NoCandidateOutcome ==
    \A k \in CallIds :
        FoundNothing(k) =>
            /\ calls[k].result = NullResult
            /\ calls[k].queries = 3
            /\ ~calls[k].wrote
            /\ k = latest =>
                  getDailyTask(cache[calls[k].client], calls[k].today,
                               calls[k].brandId, calls[k].slotType) = Null
            /\ \A j \in CallIds :
                  (LaterSameKey(k, j) /\ calls[j].pc # "cache") =>
                      /\ ~calls[j].hit
                      /\ calls[j].queries >= IF calls[j].pc = "adhoc" THEN 0
                                              ELSE 1

\* a call found nothing in a store of rows out of its scope, and the next
\* call for the key, for the same restaurant, asked the store again and
\* found nothing either
C29_Witness ==
    /\ FoundNothing(1)
    /\ pool # << >>
    /\ LaterSameKey(1, 2)
    /\ calls[2].restaurantId = calls[1].restaurantId
    /\ calls[2].pc = "done"
    /\ calls[2].queries = 3
    /\ calls[2].result = NullResult
    /\ cache[calls[1].client] = {}

\* two calls of one client for one (date, brand, slot), both returned
ReturnedForOneKey(j, k) ==
    /\ j # k
    /\ calls[j].pc = "done"
    /\ calls[k].pc = "done"
    /\ calls[j].client = calls[k].client
    /\ calls[j].today = calls[k].today
    /\ calls[j].brandId = calls[k].brandId
    /\ calls[j].slotType = calls[k].slotType

\* the calls returned the same task, or both none, and the task is the
\* cache's entry for their key
Agree(j, k) ==
    /\ calls[j].result = calls[k].result
    /\ calls[j].result.kind = "task" =>
          getDailyTask(cache[calls[j].client], calls[j].today,
                       calls[j].brandId, calls[j].slotType)
              = calls[j].result.task

\* C30: for any interleaving of concurrent getTodayTask calls for the same
\* (date, brand, slot) on one client against an unchanged task store, all
\* calls return the same Task and the cache entry finally stored for the
\* key is that Task.
C30_ConcurrentAgree ==
    \A j, k \in CallIds : ReturnedForOneKey(j, k) => Agree(j, k)

\* what the interleavings do keep: concurrent calls for one key AND one
\* restaurant agree, and the cache ends with their task
AgreeForOneRestaurant ==
    \A j, k \in CallIds :
        (ReturnedForOneKey(j, k)
            /\ calls[j].restaurantId = calls[k].restaurantId) => Agree(j, k)

\* two concurrent calls for one key and one restaurant both missed the
\* cache, both resolved from the store, and agree
AgreeForOneRestaurantWitness ==
    /\ ReturnedForOneKey(1, 2)
    /\ calls[1].restaurantId = calls[2].restaurantId
    /\ ~calls[1].hit /\ ~calls[2].hit
    /\ calls[1].wrote /\ calls[2].wrote
    /\ calls[1].result.kind = "task"

(***************************************************************************)
(* Claims about late timers, unregistering and the preload's place         *)
(***************************************************************************)
\* C31: when the transition timer fires later than its due instant, the slot
\* it stores and announces to the onSlotChange listeners is the slot whose
\* window contains the wall clock at the moment of firing, never that of a
\* window that has ended.
C31_LateFireUsesWallClock ==
    op = "mainTimer" =>
        /\ currentSlot = SlotOfWindow(slotConfig, toTimeString(clock))
        /\ \A k \in DOMAIN slotCalls :
              slotCalls[k].newSlot
                  = SlotOfWindow(slotConfig, toTimeString(clock))

\* what a step leaves of the listeners: the calls it made went to the
\* registered listeners, in the order they were added, and to none whose
\* unregister function has run; an unregister function takes exactly its
\* listener out and leaves the other Set, the slot and the timers alone
UnregisterStep ==
    /\ slotCalls' # << >> =>
          /\ Called(slotCalls') = slotChangeCallbacks'
          /\ \A k \in DOMAIN slotCalls' :
                slotCalls'[k].cb \notin unregistered'
    /\ preloadCalls' # << >> =>
          /\ Called(preloadCalls') = preloadCallbacks'
          /\ \A k \in DOMAIN preloadCalls' :
                preloadCalls'[k].cb \notin unregistered'
    /\ op' = "unsubscribeSlotChange" =>
          /\ \E k \in DOMAIN slotChangeCallbacks :
                /\ slotChangeCallbacks'
                     = Without(slotChangeCallbacks, k)
                /\ unregistered'
                     = unregistered \cup {slotChangeCallbacks[k]}
          /\ UNCHANGED << preloadCallbacks, currentSlot, timeouts >>
    /\ op' = "unsubscribePreload" =>
          /\ \E k \in DOMAIN preloadCallbacks :
                /\ preloadCallbacks' = Without(preloadCallbacks, k)
                /\ unregistered'
                     = unregistered \cup {preloadCallbacks[k]}
          /\ UNCHANGED << slotChangeCallbacks, currentSlot, timeouts >>

\* C32: the function returned by onSlotChange / onPreload removes exactly
\* the listener it was returned for: after it is called that listener is
\* not invoked again, while every other registered listener keeps being
\* invoked, in registration order.
C32_Unregister == [][UnregisterStep]_vars

\* the first of two listeners was unregistered, and the transition timer's
\* callback then called the other one, and it alone
C32_Witness ==
    /\ op = "mainTimer"
    /\ unregistered = {"a"}
    /\ slotChangeCallbacks = << "b" >>
    /\ Called(slotCalls) = << "b" >>

\* the same for the preload listeners
C32_WitnessPreload ==
    /\ op = "preloadTimer"
    /\ "p" \in unregistered
    /\ Called(preloadCalls) = << "q" >>

\* the step is a slot change: the transition timer's callback, or a
\* checkNow (in init, in the visibility handler) that found another slot
SlotChangeStep ==
    \/ op' = "mainTimer"
    \/ /\ op' \in {"init", "checkNow", "visible"}
       /\ currentSlot' # currentSlot
       /\ currentSlot' # Null

\* the slots among the observer's entries
PreloadedSlots(entries) ==
    LET IsSlot(e) == e # Rearmed
    IN  SelectSeq(entries, IsSlot)

\* since the last slot change the preload listeners were called at most
\* once; a slot change finds them called not at all or with its slot
PreloadOnceStep ==
    /\ Len(PreloadedSlots(preloadedFor')) <= 1
    /\ SlotChangeStep =>
          PreloadedSlots(preloadedFor) \in { << >>, currentSlot' }

\* C33: between two consecutive slot changes, over any interleaving of timer
\* fires and resume signals, the preload listeners are invoked at most
\* once, with the slot of the next transition, and before that transition's
\* onSlotChange.
C33_PreloadOnceBeforeTransition == [][PreloadOnceStep]_vars

\* what holds of the preload calls: each names the slot of the transition
\* timer pending when it is made, whose callback has therefore not run;
\* two of them since the last slot change are separated by an init or a
\* change to visible; and the transition timer's callback, when neither
\* ran since the preload call, announces the slot the call named
PreloadAsArmedStep ==
    /\ preloadCalls' # << >> =>
          \E m \in Pending(timeouts', "main") :
              \A k \in DOMAIN preloadCalls' :
                  preloadCalls'[k].upcomingSlot = m.slot
    /\ \A k \in 1 .. (Len(preloadedFor') - 1) :
          preloadedFor'[k] = Rearmed \/ preloadedFor'[k + 1] = Rearmed
    /\ ( /\ op' = "mainTimer"
         /\ preloadedFor # << >>
         /\ preloadedFor[Len(preloadedFor)] # Rearmed ) =>
          currentSlot' = << preloadedFor[Len(preloadedFor)] >>

\* C33 as the code has it: a preload call names the slot of the pending
\* transition timer and precedes that timer's onSlotChange, and without an
\* init or resume in between there is one preload call at most between two
\* slot changes; after a suspension that ran past the transition, a second
\* preload call, for the then next slot, can follow the first.
C33_PreloadAsArmed == [][PreloadAsArmedStep]_vars

\* the preload listener was called for lunch_open, the page slept through
\* that window and was shown again, and the listener is called a second
\* time, for lunch_close, no slot change in between
C33_Witness ==
    /\ op = "preloadTimer"
    /\ preloadCalls # << >>
    /\ preloadedFor = << "lunch_open", Rearmed, "lunch_close" >>

(***************************************************************************)
(* Claims about the slot classifiers                                       *)
(***************************************************************************)

\* the answers of the three classifiers of the current slot, once all three
\* were asked
CurrentSlotAnswers ==
    { slotBy[c] : c \in {"checkNow", "getCurrentTimeSlot", "getCurrentSlotType"} }

\* C34: for the same window bounds, TimeScheduler.checkNow,
\* KBDService.getCurrentTimeSlot and TimeControlModule.getCurrentSlotType give
\* every time of day the same slot, or all none, also at the instant a
\* window ends and during the minute after it.
C34_ClassifiersAgree ==
    NotAsked \notin CurrentSlotAnswers => Cardinality(CurrentSlotAnswers) = 1

\* the slot the statement of C36 names for a time of day: the clauses in the
\* order they are stated, the evening running to midnight
PassedMostRecently(t) ==
    IF t < HMS(11, 30, 0) THEN "dinner_close"
    ELSE IF t < HMS(15, 30, 0) THEN "lunch_open"
    ELSE IF t < HMS(17, 30, 0) THEN "lunch_close"
    ELSE "dinner_open"

\* C36: getPreviousTimeSlot returns dinner_close before 11:30:00, lunch_open
\* from 11:30:00 until 15:30:00, lunch_close from 15:30:00 until 17:30:00 and
\* dinner_open from 17:30:00 until the dinner_close boundary.
C36_PreviousSlot ==
    slotBy["getPreviousTimeSlot"] # NotAsked =>
        slotBy["getPreviousTimeSlot"] = << PassedMostRecently(sampleTime) >>

(***************************************************************************)
(* Claims about the simulated clock                                        *)
(***************************************************************************)

\* C35: over any sequence of setDevTime, adjustTime, resetTime and ticks,
\* onTimeWindowChange is invoked only by a step that moved the current time
\* from one slot, or from outside every window, to a different one; a step
\* that stays in the same window, or outside every window, invokes nothing.
C35_FiresOnlyOnChange ==
    /\ devOp \in {"setDevTime", "adjustTime", "resetTime", "tick"}
    /\ devInvoked > 0
    => getCurrentSlotType(devBefore) # getCurrentSlotType(getCurrentTime)

(***************************************************************************)
(* Claims about the task AppModule shows                                   *)
(***************************************************************************)

\* every started handleTimeWindowChange has completed
HandlingFinished ==
    \A h \in Handlers : handlers[h].pc \in {"idle", "done"}

\* C37: when every started handleTimeWindowChange has completed and
\* AppModule is inside a window, currentTask is null or the Task resolved
\* for currentSlotType, never the task of an earlier slot, also when
\* resolving the task of the new slot failed.
C37_TaskMatchesSlot ==
    HandlingFinished /\ isInTimeWindow =>
        \/ currentTask = Null
        \/ currentTask = << TaskFor(currentSlotType[1]) >>

(***************************************************************************)
(* Claims about the check-in history                                       *)
(***************************************************************************)

\* a call of getCheckInHistory for offset 0 that returned
FirstPageReturned ==
    /\ historyCall.name = "getCheckInHistory"
    /\ historyCall.offset = 0
    /\ historyCall.path \in {"cache", "store"}

\* C38: after submitCheckIn succeeded for a restaurant, the next
\* getCheckInHistory(r, 10, 0) returns the new record as its first entry,
\* whether or not a first page had been cached before.
C38_HistoryShowsNewRecord ==
    /\ FirstPageReturned
    /\ historyCall.limit = 10
    /\ historyCall.awaited # Null
    => /\ historyCall.records # << >>
       /\ historyCall.records[1] = historyCall.awaited[1]

\* C39: getCheckInHistory(r, limit, 0) reports hasMore = TRUE exactly when
\* the store holds more than limit records of r, from the check-in cache as
\* from the store.
C39_HasMoreTruthful ==
    FirstPageReturned =>
        historyCall.hasMore =
            (checkIns[historyCall.restaurantId] > historyCall.limit)

====
